---- MODULE Spec2Model ----
(***************************************************************************)
(* Model of the schema-driven document validator of schema-client          *)
(* (validateDocument and the checks it runs).                              *)
(*                                                                         *)
(* JavaScript values are tagged records:                                   *)
(*   [t |-> "undefined"], [t |-> "null"], [t |-> "string", s |-> ...],     *)
(*   [t |-> "number", h |-> twice the value, nan |-> ...],                 *)
(*   [t |-> "boolean", b |-> ...], [t |-> "array", items |-> <<...>>],     *)
(*   [t |-> "object", props |-> << [k |-> key, v |-> value], ... >>].      *)
(* A thrown TypeError is an entry of severity "throw" that ends the        *)
(* sequence of issues a check returns; an invocation of the                *)
(* resolveReference callback is an entry of severity "call".               *)
(***************************************************************************)
EXTENDS Integers, Sequences, FiniteSets, TLC

\* ------------------------------------------------------------------------
\* Bounds of the explored input space
\* ------------------------------------------------------------------------
\* the longest array of primitives, the longest array of objects and the
\* largest number of an explored document
MaxItems == 3
MaxObjItems == 2
MaxNum == 4
\* the deepest recursion of validateField that is followed
DepthLimit == 6

\* ------------------------------------------------------------------------
\* JavaScript values
\* ------------------------------------------------------------------------
Undef == [t |-> "undefined"]
Null == [t |-> "null"]
Str(s) == [t |-> "string", s |-> s]
Num(n) == [t |-> "number", h |-> 2 * n, nan |-> FALSE]
Half(h) == [t |-> "number", h |-> h, nan |-> FALSE]
NaN == [t |-> "number", h |-> 0, nan |-> TRUE]
Bool(b) == [t |-> "boolean", b |-> b]
Arr(items) == [t |-> "array", items |-> items]
Obj(props) == [t |-> "object", props |-> props]
P(k, v) == [k |-> k, v |-> v]

IsAbsent(v) == v.t = "undefined" \/ v.t = "null"
IsString(v) == v.t = "string"
IsNumber(v) == v.t = "number"
IsArray(v) == v.t = "array"

\* typeof v
TypeOf(v) ==
  CASE v.t = "undefined" -> "undefined"
    [] v.t = "null" -> "object"
    [] v.t = "array" -> "object"
    [] v.t = "object" -> "object"
    [] OTHER -> v.t

\* typeof v === 'object' && v !== null
IsObjectLike(v) == v.t = "object" \/ v.t = "array"

\* !!v
Truthy(v) ==
  CASE v.t = "undefined" -> FALSE
    [] v.t = "null" -> FALSE
    [] v.t = "string" -> v.s # ""
    [] v.t = "number" -> ~v.nan /\ v.h # 0
    [] v.t = "boolean" -> v.b
    [] OTHER -> TRUE

\* k in v, for an object-like v and a key k that is neither an index nor length
HasKey(v, k) == v.t = "object" /\ \E i \in 1..Len(v.props) : v.props[i].k = k

\* v[k] for a v that is neither null nor undefined
Get(v, k) ==
  IF HasKey(v, k)
  THEN v.props[CHOOSE i \in 1..Len(v.props) :
                 /\ v.props[i].k = k
                 /\ \A j \in (i + 1)..Len(v.props) : v.props[j].k # k].v
  ELSE Undef

\* String(n) of a number kept in halves
NumToStr(v) ==
  IF v.nan THEN "NaN"
  ELSE IF v.h < 0
       THEN "-" \o ToString((0 - v.h) \div 2) \o (IF (0 - v.h) % 2 = 1 THEN ".5" ELSE "")
       ELSE ToString(v.h \div 2) \o (IF v.h % 2 = 1 THEN ".5" ELSE "")

RECURSIVE JoinStrs(_, _)
JoinStrs(seq, sep) ==
  IF Len(seq) = 0 THEN ""
  ELSE IF Len(seq) = 1 THEN seq[1]
  ELSE seq[1] \o sep \o JoinStrs(Tail(seq), sep)

\* `${v}` : the string conversion of a template literal
RECURSIVE JsToString(_)
JsToString(v) ==
  CASE v.t = "undefined" -> "undefined"
    [] v.t = "null" -> "null"
    [] v.t = "string" -> v.s
    [] v.t = "number" -> NumToStr(v)
    [] v.t = "boolean" -> IF v.b THEN "true" ELSE "false"
    [] v.t = "array" ->
         JoinStrs([i \in 1..Len(v.items) |->
                     IF IsAbsent(v.items[i]) THEN "" ELSE JsToString(v.items[i])], ",")
    [] OTHER -> "[object Object]"

\* the conversion Array.prototype.join applies to an element
JoinElem(v) == IF IsAbsent(v) THEN "" ELSE JsToString(v)

\* JSON.stringify(v) for a present v
RECURSIVE JSONStringify(_)
JSONStringify(v) ==
  CASE v.t = "null" -> "null"
    [] v.t = "undefined" -> "null"
    [] v.t = "string" -> "\"" \o v.s \o "\""
    [] v.t = "number" -> IF v.nan THEN "null" ELSE NumToStr(v)
    [] v.t = "boolean" -> IF v.b THEN "true" ELSE "false"
    [] v.t = "array" ->
         "[" \o JoinStrs([i \in 1..Len(v.items) |-> JSONStringify(v.items[i])], ",") \o "]"
    [] OTHER ->
         LET kept == SelectSeq(v.props, LAMBDA p : p.v.t # "undefined")
         IN "{" \o JoinStrs([i \in 1..Len(kept) |->
                    "\"" \o kept[i].k \o "\":" \o JSONStringify(kept[i].v)], ",") \o "}"

\* Number(v), the coercion of a relational or arithmetic operand
ToNumber(v) ==
  CASE v.t = "number" -> v
    [] v.t = "null" -> Num(0)
    [] v.t = "boolean" -> IF v.b THEN Num(1) ELSE Num(0)
    [] v.t = "string" -> IF v.s = "" THEN Num(0) ELSE NaN
    [] v.t = "array" -> IF Len(v.items) = 0 THEN Num(0) ELSE NaN
    [] OTHER -> NaN

\* a <= b in the place of a < b
NumLt_orEqual(a, b) == ~a.nan /\ ~b.nan /\ a.h <= b.h

\* a < b and a > b on numbers (false as soon as one side is NaN)
NumLt(a, b) == ~a.nan /\ ~b.nan /\ a.h < b.h
NumGt(a, b) == ~a.nan /\ ~b.nan /\ a.h > b.h
\* a - b
NumSub(a, b) == IF a.nan \/ b.nan THEN NaN ELSE Half(a.h - b.h)

\* the characters of a string
Chars(s) == [i \in 1..Len(s) |-> SubSeq(s, i, i)]

\* ------------------------------------------------------------------------
\* Schema model (ManifestSchemaType, ManifestField, array and reference
\* members, validation groups and rules)
\* ------------------------------------------------------------------------
\* the name of an array or reference member that declares none
NoName == "<undefined>"

\* a schema node with no title, fields, members, rules or options
Node(type, name) ==
  [type |-> type, name |-> name, title |-> "", hasFields |-> FALSE, fields |-> <<>>,
   of |-> <<>>, to |-> <<>>, validation |-> <<>>, list |-> Undef, initialValue |-> Undef]

Rule(flag, constraint) == [flag |-> flag, constraint |-> constraint]
Group(rules) == [rules |-> rules]
Required == Rule("presence", Str("required"))

WithRules(node, rules) == [node EXCEPT !.validation = <<Group(rules)>>]
WithFields(node, fields) == [node EXCEPT !.hasFields = TRUE, !.fields = fields]
WithOf(node, members) == [node EXCEPT !.of = members]
WithTo(node, members) == [node EXCEPT !.to = members]
WithList(node, list) == [node EXCEPT !.list = list]
WithTitle(node, title) == [node EXCEPT !.title = title]
WithInitial(node, value) == [node EXCEPT !.initialValue = value]

\* m.name as a JavaScript value
JsName(m) == IF m.name = NoName THEN Undef ELSE Str(m.name)

\* getValidationRules(field): the rules of all groups, in order
RECURSIVE FlattenGroups(_)
FlattenGroups(groups) ==
  IF Len(groups) = 0 THEN <<>>
  ELSE groups[1].rules \o FlattenGroups(Tail(groups))

getValidationRules(field) == FlattenGroups(field.validation)

\* new Map(allTypes.map((t) => [t.name, t])).has(name)
TypeMapHas(types, name) == \E i \in 1..Len(types) : types[i].name = name

\* new Map(allTypes.map((t) => [t.name, t])).get(name), for a name it has:
\* a later type of the same name replaces an earlier one
TypeMapGet(types, name) ==
  types[CHOOSE i \in 1..Len(types) :
          /\ types[i].name = name
          /\ \A j \in (i + 1)..Len(types) : types[j].name # name]

\* ------------------------------------------------------------------------
\* Issues
\* ------------------------------------------------------------------------
Issue(path, message, severity, rule, value, expected, field, suggestions) ==
  [path |-> path, message |-> message, severity |-> severity, rule |-> rule,
   value |-> value, expected |-> expected, field |-> field,
   suggestions |-> suggestions]

\* a TypeError raised while checking: it ends the sequence it is in
ThrowEntry ==
  Issue("", "TypeError", "throw", Undef, Undef, Undef, Undef, <<>>)

\* one invocation of options.resolveReference
CallEntry(id) ==
  Issue(id, "resolveReference", "call", Undef, Undef, Undef, Undef, <<>>)

Threw(seq) == Len(seq) > 0 /\ seq[Len(seq)].severity = "throw"

\* statements in sequence: what follows a throw is not executed
Then(a, b) == IF Threw(a) THEN a ELSE a \o b

FieldContext(field) == [name |-> field.name, type |-> field.type, title |-> field.title]

\* first rule with the flag, or undefined (rules.find)
FindRule(rules, flag) ==
  IF \E i \in 1..Len(rules) : rules[i].flag = flag
  THEN rules[CHOOSE i \in 1..Len(rules) :
               /\ rules[i].flag = flag
               /\ \A j \in 1..(i - 1) : rules[j].flag # flag]
  ELSE Undef

\* ------------------------------------------------------------------------
\* Character classes and the runtime's parsers
\* ------------------------------------------------------------------------
LowerChars == {"a", "b", "c", "d", "e", "f", "g", "h", "i", "j", "k", "l", "m", "n",
               "o", "p", "q", "r", "s", "t", "u", "v", "w", "x", "y", "z"}
UpperChars == {"A", "B", "C", "D", "E", "F", "G", "H", "I", "J", "K", "L", "M", "N",
               "O", "P", "Q", "R", "S", "T", "U", "V", "W", "X", "Y", "Z"}
DigitChars == {"0", "1", "2", "3", "4", "5", "6", "7", "8", "9"}
SpaceChars == {" "}

\* /^[a-z0-9]+(?:-[a-z0-9]+)*$/.test(s)
SlugFormatOk(s) ==
  LET c == Chars(s) IN
  /\ Len(c) > 0
  /\ \A i \in 1..Len(c) : c[i] \in LowerChars \cup DigitChars \cup {"-"}
  /\ c[1] # "-"
  /\ c[Len(c)] # "-"
  /\ \A i \in 1..(Len(c) - 1) : ~(c[i] = "-" /\ c[i + 1] = "-")

\* /^[^\s@]+@[^\s@]+\.[^\s@]+$/.test(s)
EmailFormatOk(s) ==
  LET c == Chars(s)
      plain(i, j) == i <= j /\ \A k \in i..j : c[k] \notin SpaceChars \cup {"@"}
  IN \E a \in 1..Len(c) : \E d \in 1..Len(c) :
       /\ a < d
       /\ c[a] = "@"
       /\ c[d] = "."
       /\ plain(1, a - 1)
       /\ plain(a + 1, d - 1)
       /\ plain(d + 1, Len(c))

\* new URL(s) does not throw: s starts with a scheme and a colon, and a
\* special scheme (http, https, ftp, ws, wss) is followed by a host
UrlParses(s) ==
  LET c == Chars(s) IN
  \E n \in 2..Len(c) :
    /\ c[n] = ":"
    /\ c[1] \in LowerChars \cup UpperChars
    /\ \A k \in 2..(n - 1) : c[k] \in LowerChars \cup UpperChars \cup DigitChars \cup {"+", "-", "."}
    /\ SubSeq(s, 1, n - 1) \in {"http", "https", "ftp", "ws", "wss"} =>
         \E k \in (n + 1)..Len(c) : c[k] \notin {"/", "\\"} \cup SpaceChars

\* !isNaN(new Date(s).getTime()) for the forms YYYY-MM-DD and
\* YYYY-MM-DDTHH:MM:SSZ; every other string of the explored documents is
\* rejected by the runtime's date parser
DateParses(s) ==
  LET c == Chars(s)
      digits(i, j) == \A k \in i..j : c[k] \in DigitChars
      dateOk == /\ Len(c) >= 10
                /\ digits(1, 4) /\ c[5] = "-" /\ digits(6, 7) /\ c[8] = "-" /\ digits(9, 10)
                /\ SubSeq(s, 6, 7) \in {"01", "02", "03", "04", "05", "06", "07", "08",
                                        "09", "10", "11", "12"}
                /\ SubSeq(s, 9, 10) # "00" /\ c[9] \in {"0", "1", "2", "3"}
  IN /\ dateOk
     /\ \/ Len(c) = 10
        \/ /\ Len(c) = 20
           /\ c[11] = "T" /\ digits(12, 13) /\ c[14] = ":" /\ digits(15, 16)
           /\ c[17] = ":" /\ digits(18, 19) /\ c[20] = "Z"
           /\ c[12] \in {"0", "1", "2"} /\ c[15] \in {"0", "1", "2", "3", "4", "5"}
           /\ c[18] \in {"0", "1", "2", "3", "4", "5"}

\* a RegExp constructor that accepts every pattern
RegexCompiles_always(pattern) == TRUE

\* new RegExp(pattern) does not throw, for the patterns the explored schemas use
RegexCompiles(pattern) == pattern \notin {"[", "(", "*"}

\* new RegExp(pattern).test(s), for the patterns the explored schemas use
RegexTest(pattern, s) ==
  LET c == Chars(s) IN
  CASE pattern = "^[a-z]+$" -> Len(c) > 0 /\ \A i \in 1..Len(c) : c[i] \in LowerChars
    [] pattern = "^[A-Z]" -> Len(c) > 0 /\ c[1] \in UpperChars
    [] pattern = "[0-9]" -> \E i \in 1..Len(c) : c[i] \in DigitChars
    [] OTHER -> \E i \in 0..(Len(s) - Len(pattern)) :
                  SubSeq(s, i + 1, i + Len(pattern)) = pattern

\* s.toLowerCase()
LowerOf(ch) ==
  IF ch \in UpperChars
  THEN CHOOSE l \in LowerChars :
         \E pr \in {<<"A", "a">>, <<"B", "b">>, <<"C", "c">>, <<"D", "d">>, <<"E", "e">>,
                    <<"F", "f">>, <<"G", "g">>, <<"H", "h">>, <<"I", "i">>, <<"J", "j">>,
                    <<"K", "k">>, <<"L", "l">>, <<"M", "m">>, <<"N", "n">>, <<"O", "o">>,
                    <<"P", "p">>, <<"Q", "q">>, <<"R", "r">>, <<"S", "s">>, <<"T", "t">>,
                    <<"U", "u">>, <<"V", "v">>, <<"W", "w">>, <<"X", "x">>, <<"Y", "y">>,
                    <<"Z", "z">>} : pr[1] = ch /\ pr[2] = l
  ELSE ch

RECURSIVE ToLowerCase(_)
ToLowerCase(s) ==
  IF Len(s) = 0 THEN "" ELSE LowerOf(SubSeq(s, 1, 1)) \o ToLowerCase(SubSeq(s, 2, Len(s)))

\* s.replace(/[^a-z0-9]+/g, '-')
RECURSIVE CollapseRuns(_, _)
CollapseRuns(s, inRun) ==
  IF Len(s) = 0 THEN ""
  ELSE LET ch == SubSeq(s, 1, 1)
           rest == SubSeq(s, 2, Len(s))
       IN IF ch \in LowerChars \cup DigitChars
          THEN ch \o CollapseRuns(rest, FALSE)
          ELSE (IF inRun THEN "" ELSE "-") \o CollapseRuns(rest, TRUE)

\* s.replace(/^-|-$/g, '')
StripEdgeHyphens(s) ==
  LET a == IF Len(s) > 0 /\ SubSeq(s, 1, 1) = "-" THEN SubSeq(s, 2, Len(s)) ELSE s
  IN IF Len(a) > 0 /\ SubSeq(a, Len(a), Len(a)) = "-" THEN SubSeq(a, 1, Len(a) - 1) ELSE a

\* the slug validateSlug suggests
NormalizeSlug(s) == StripEdgeHyphens(CollapseRuns(ToLowerCase(s), FALSE))

\* validateString whose option error suggests only the first allowed value
validateString_firstSuggested(value, field, path, rules, fieldContext) ==
  IF TypeOf(value) # "string"
  THEN << Issue(path, "Expected string, got " \o TypeOf(value), "error", Undef, value,
                Str("string"), fieldContext, << "Convert the value to a string" >>) >>
  ELSE LET list == field.list IN
       IF Truthy(list) /\ IsArray(list)
       THEN IF \E i \in 1..Len(list.items) : list.items[i].t = "null"
            THEN << ThrowEntry >>
            ELSE LET validValues ==
                       [i \in 1..Len(list.items) |->
                          IF TypeOf(list.items[i]) = "object"
                          THEN Get(list.items[i], "value")
                          ELSE list.items[i]]
                 IN IF \E i \in 1..Len(validValues) : validValues[i] = value
                    THEN <<>>
                    ELSE << Issue(path, "\"" \o value.s \o "\" is not a valid option",
                                  "error", Undef, value,
                                  Str("one of: " \o JoinStrs([i \in 1..Len(validValues) |->
                                                       JoinElem(validValues[i])], ", ")),
                                  fieldContext,
                                  SubSeq([i \in 1..Len(validValues) |->
                                            "Use \"" \o JsToString(validValues[i]) \o "\""],
                                         1, 1)) >>
       ELSE <<>>

\* ------------------------------------------------------------------------
\* Structural checks, one per kind
\* ------------------------------------------------------------------------
validateString(value, field, path, rules, fieldContext) ==
  IF TypeOf(value) # "string"
  THEN << Issue(path, "Expected string, got " \o TypeOf(value), "error", Undef, value,
                Str("string"), fieldContext, << "Convert the value to a string" >>) >>
  ELSE LET list == field.list IN
       IF Truthy(list) /\ IsArray(list)
       THEN IF \E i \in 1..Len(list.items) : list.items[i].t = "null"
            THEN << ThrowEntry >>
            ELSE LET validValues ==
                       [i \in 1..Len(list.items) |->
                          IF TypeOf(list.items[i]) = "object"
                          THEN Get(list.items[i], "value")
                          ELSE list.items[i]]
                 IN IF \E i \in 1..Len(validValues) : validValues[i] = value
                    THEN <<>>
                    ELSE << Issue(path, "\"" \o value.s \o "\" is not a valid option",
                                  "error", Undef, value,
                                  Str("one of: " \o JoinStrs([i \in 1..Len(validValues) |->
                                                       JoinElem(validValues[i])], ", ")),
                                  fieldContext,
                                  [i \in 1..Len(validValues) |->
                                     "Use \"" \o JsToString(validValues[i]) \o "\""]) >>
       ELSE <<>>

validateNumber(value, field, path, rules, fieldContext) ==
  IF TypeOf(value) # "number" \/ value.nan
  THEN << Issue(path, "Expected number, got " \o TypeOf(value), "error", Undef, value,
                Str("number"), fieldContext, << "Convert the value to a number" >>) >>
  ELSE LET integerRule == FindRule(rules, "integer")
           positiveRule == FindRule(rules, "positive")
       IN (IF integerRule # Undef /\ value.h % 2 # 0
           THEN << Issue(path, "Expected integer, got decimal", "error", integerRule, value,
                         Str("integer"), fieldContext,
                         << "Round to " \o ToString((value.h + 1) \div 2) >>) >>
           ELSE <<>>)
          \o
          (IF positiveRule # Undef /\ value.h <= 0
           THEN << Issue(path, "Expected positive number", "error", positiveRule, value,
                         Str("positive number"), fieldContext, << "Use a positive value" >>) >>
           ELSE <<>>)

validateBoolean(value, path, fieldContext) ==
  IF TypeOf(value) # "boolean"
  THEN << Issue(path, "Expected boolean, got " \o TypeOf(value), "error", Undef, value,
                Str("boolean"), fieldContext, << "Use true or false" >>) >>
  ELSE <<>>

validateDate(value, field, path, fieldContext) ==
  LET expected == IF field.type = "datetime" THEN "ISO 8601 datetime string"
                  ELSE "YYYY-MM-DD date string"
      suggestion == IF field.type = "datetime" THEN "Use format: 2024-01-15T10:30:00Z"
                    ELSE "Use format: 2024-01-15"
  IN IF TypeOf(value) # "string"
     THEN << Issue(path, "Expected date string, got " \o TypeOf(value), "error", Undef,
                   value, Str(expected), fieldContext, << suggestion >>) >>
     ELSE IF ~DateParses(value.s)
     THEN << Issue(path, "Invalid date format: \"" \o value.s \o "\"", "error", Undef,
                   value, Str(expected), fieldContext, << suggestion >>) >>
     ELSE <<>>

\* validateReference that resolves the referenced document through the callback
validateReference_resolves(value, field, path, fieldContext) ==
  IF ~IsObjectLike(value)
  THEN << Issue(path, "Expected reference object, got " \o TypeOf(value), "error", Undef,
                value, Str("reference object with _ref"), fieldContext,
                << "Use format: { \"_type\": \"reference\", \"_ref\": \"document-id\" }" >>) >>
  ELSE LET refValue == Get(value, "_ref")
       IN IF ~Truthy(refValue) \/ TypeOf(refValue) # "string"
          THEN << Issue(path \o "._ref", "Reference is missing _ref property", "error",
                        Undef, refValue, Str("string (document ID)"), fieldContext,
                        << "Add \"_ref\": \"document-id\" to the reference" >>) >>
          ELSE << CallEntry(refValue.s) >>

\* validateReference that reports a missing _ref at the field's own path
validateReference_refAtFieldPath(value, field, path, fieldContext) ==
  IF ~IsObjectLike(value)
  THEN << Issue(path, "Expected reference object, got " \o TypeOf(value), "error", Undef,
                value, Str("reference object with _ref"), fieldContext,
                << "Use format: { \"_type\": \"reference\", \"_ref\": \"document-id\" }" >>) >>
  ELSE LET refValue == Get(value, "_ref")
           refType == Get(value, "_type")
           targets == field.to
           allowedTypes == SelectSeq([i \in 1..Len(targets) |-> targets[i].type],
                                     LAMBDA t : t # "")
           allowedText == JoinStrs(allowedTypes, ", ")
       IN (IF ~Truthy(refValue) \/ TypeOf(refValue) # "string"
           THEN << Issue(path, "Reference is missing _ref property", "error",
                         Undef, refValue, Str("string (document ID)"), fieldContext,
                         << "Add \"_ref\": \"document-id\" to the reference" >>) >>
           ELSE <<>>)
          \o
          (IF /\ Truthy(refType)
              /\ refType # Str("reference")
              /\ Len(allowedTypes) > 0
              /\ ~\E i \in 1..Len(allowedTypes) : Str(allowedTypes[i]) = refType
           THEN << Issue(path \o "._type",
                         "Reference to \"" \o JsToString(refType) \o "\" is not allowed",
                         "error", Undef, refType, Str("reference to: " \o allowedText),
                         fieldContext,
                         << "Reference a document of type: " \o allowedText >>) >>
           ELSE <<>>)

validateReference(value, field, path, fieldContext) ==
  IF ~IsObjectLike(value)
  THEN << Issue(path, "Expected reference object, got " \o TypeOf(value), "error", Undef,
                value, Str("reference object with _ref"), fieldContext,
                << "Use format: { \"_type\": \"reference\", \"_ref\": \"document-id\" }" >>) >>
  ELSE LET refValue == Get(value, "_ref")
           refType == Get(value, "_type")
           targets == field.to
           allowedTypes == SelectSeq([i \in 1..Len(targets) |-> targets[i].type],
                                     LAMBDA t : t # "")
           allowedText == JoinStrs(allowedTypes, ", ")
       IN (IF ~Truthy(refValue) \/ TypeOf(refValue) # "string"
           THEN << Issue(path \o "._ref", "Reference is missing _ref property", "error",
                         Undef, refValue, Str("string (document ID)"), fieldContext,
                         << "Add \"_ref\": \"document-id\" to the reference" >>) >>
           ELSE <<>>)
          \o
          (IF /\ Truthy(refType)
              /\ refType # Str("reference")
              /\ Len(allowedTypes) > 0
              /\ ~\E i \in 1..Len(allowedTypes) : Str(allowedTypes[i]) = refType
           THEN << Issue(path \o "._type",
                         "Reference to \"" \o JsToString(refType) \o "\" is not allowed",
                         "error", Undef, refType, Str("reference to: " \o allowedText),
                         fieldContext,
                         << "Reference a document of type: " \o allowedText >>) >>
           ELSE <<>>)

\* validateSlug that reports a badly formatted slug as an error
validateSlug_formatError(value, field, path, rules, fieldContext) ==
  IF ~IsObjectLike(value)
  THEN << Issue(path, "Expected slug object, got " \o TypeOf(value), "error", Undef, value,
                Str("slug object with current property"), fieldContext,
                << "Use format: { \"current\": \"my-slug\" }" >>) >>
  ELSE LET slugCurrent == Get(value, "current") IN
       IF ~Truthy(slugCurrent) \/ TypeOf(slugCurrent) # "string"
       THEN << Issue(path \o ".current", "Slug is missing current value", "error", Undef,
                     slugCurrent, Str("string"), fieldContext,
                     << "Add \"current\": \"url-friendly-slug\"" >>) >>
       ELSE IF ~SlugFormatOk(slugCurrent.s)
       THEN << Issue(path \o ".current", "Slug contains invalid characters", "error",
                     Undef, slugCurrent,
                     Str("lowercase letters, numbers, and hyphens only"), fieldContext,
                     << "Use: \"" \o NormalizeSlug(slugCurrent.s) \o "\"" >>) >>
       ELSE <<>>

validateSlug(value, field, path, rules, fieldContext) ==
  IF ~IsObjectLike(value)
  THEN << Issue(path, "Expected slug object, got " \o TypeOf(value), "error", Undef, value,
                Str("slug object with current property"), fieldContext,
                << "Use format: { \"current\": \"my-slug\" }" >>) >>
  ELSE LET slugCurrent == Get(value, "current") IN
       IF ~Truthy(slugCurrent) \/ TypeOf(slugCurrent) # "string"
       THEN << Issue(path \o ".current", "Slug is missing current value", "error", Undef,
                     slugCurrent, Str("string"), fieldContext,
                     << "Add \"current\": \"url-friendly-slug\"" >>) >>
       ELSE IF ~SlugFormatOk(slugCurrent.s)
       THEN << Issue(path \o ".current", "Slug contains invalid characters", "warning",
                     Undef, slugCurrent,
                     Str("lowercase letters, numbers, and hyphens only"), fieldContext,
                     << "Use: \"" \o NormalizeSlug(slugCurrent.s) \o "\"" >>) >>
       ELSE <<>>

validateUrl(value, path, rules, fieldContext) ==
  IF TypeOf(value) # "string"
  THEN << Issue(path, "Expected URL string, got " \o TypeOf(value), "error", Undef, value,
                Str("URL string"), fieldContext, <<>>) >>
  ELSE IF ~UrlParses(value.s)
  THEN << Issue(path, "Invalid URL: \"" \o value.s \o "\"", "error", Undef, value,
                Str("valid URL"), fieldContext,
                << "Use format: https://example.com/path" >>) >>
  ELSE <<>>

\* the checks of one entry of block.children
validateBlockChild(child, childPath, fieldContext) ==
  IF IsAbsent(child)
  THEN << ThrowEntry >>
  ELSE (IF ~Truthy(Get(child, "_type"))
        THEN << Issue(childPath \o "._type", "Block child is missing _type", "error",
                      Undef, Undef, Str("span or inline type"), fieldContext, <<>>) >>
        ELSE <<>>)
       \o
       (IF ~Truthy(Get(child, "_key"))
        THEN << Issue(childPath \o "._key", "Block child is missing _key", "warning",
                      Undef, Undef, Str("unique key"), fieldContext, <<>>) >>
        ELSE <<>>)

RECURSIVE validateBlockChildren(_, _, _, _)
validateBlockChildren(children, i, path, fieldContext) ==
  IF i > Len(children) THEN <<>>
  ELSE Then(validateBlockChild(children[i],
                               path \o ".children[" \o ToString(i - 1) \o "]", fieldContext),
            validateBlockChildren(children, i + 1, path, fieldContext))

validateBlock(value, field, path, typeMap, options, fieldContext) ==
  IF ~IsObjectLike(value)
  THEN << Issue(path, "Expected block object, got " \o TypeOf(value), "error", Undef, value,
                Str("portable text block"), fieldContext, <<>>) >>
  ELSE LET blockType == Get(value, "_type")
           blockKey == Get(value, "_key")
           blockChildren == Get(value, "children")
       IN (IF ~Truthy(blockType)
           THEN << Issue(path \o "._type", "Block is missing _type", "error", Undef, Undef,
                         Str("block type"), fieldContext, <<>>) >>
           ELSE <<>>)
          \o
          (IF ~Truthy(blockKey)
           THEN << Issue(path \o "._key", "Block is missing _key", "warning", Undef, Undef,
                         Str("unique key"), fieldContext, <<>>) >>
           ELSE <<>>)
          \o
          (IF IsArray(blockChildren)
           THEN validateBlockChildren(blockChildren.items, 1, path, fieldContext)
           ELSE <<>>)

\* ------------------------------------------------------------------------
\* Generic rule application
\* ------------------------------------------------------------------------
\* the issues of one rule (one iteration of the loop of applyValidationRules)
applyRule(value, rule, path, fieldContext) ==
  LET c == rule.constraint
      len == IF IsString(value) THEN Num(Len(value.s))
             ELSE IF IsArray(value) THEN Num(Len(value.items)) ELSE NaN
      plural(n) == IF n = Num(1) THEN "" ELSE "s"
  IN
  CASE rule.flag = "min" ->
         IF IsString(value) /\ NumLt(len, ToNumber(c))
         THEN << Issue(path, "Must be at least " \o JsToString(c) \o " characters", "error",
                       rule, value, Str("string with length >= " \o JsToString(c)),
                       fieldContext,
                       << "Add " \o NumToStr(NumSub(ToNumber(c), len)) \o " more character"
                          \o plural(NumSub(ToNumber(c), len)) >>) >>
         ELSE IF IsNumber(value) /\ NumLt(value, ToNumber(c))
         THEN << Issue(path, "Must be at least " \o JsToString(c), "error", rule, value,
                       Str("number >= " \o JsToString(c)), fieldContext, <<>>) >>
         ELSE IF IsArray(value) /\ NumLt(len, ToNumber(c))
         THEN << Issue(path, "Must have at least " \o JsToString(c) \o " item" \o plural(c),
                       "error", rule, len, Str("array with length >= " \o JsToString(c)),
                       fieldContext, <<>>) >>
         ELSE <<>>
    [] rule.flag = "max" ->
         IF IsString(value) /\ NumGt(len, ToNumber(c))
         THEN << Issue(path, "Must be at most " \o JsToString(c) \o " characters (currently "
                             \o NumToStr(len) \o ")", "error",
                       rule, value, Str("string with length <= " \o JsToString(c)),
                       fieldContext,
                       << "Remove " \o NumToStr(NumSub(len, ToNumber(c))) \o " character"
                          \o plural(NumSub(len, ToNumber(c))) >>) >>
         ELSE IF IsNumber(value) /\ NumGt(value, ToNumber(c))
         THEN << Issue(path, "Must be at most " \o JsToString(c), "error", rule, value,
                       Str("number <= " \o JsToString(c)), fieldContext, <<>>) >>
         ELSE IF IsArray(value) /\ NumGt(len, ToNumber(c))
         THEN << Issue(path, "Must have at most " \o JsToString(c) \o " item" \o plural(c)
                             \o " (currently " \o NumToStr(len) \o ")",
                       "error", rule, len, Str("array with length <= " \o JsToString(c)),
                       fieldContext, <<>>) >>
         ELSE <<>>
    [] rule.flag = "length" ->
         IF ~IsString(value) THEN <<>>
         ELSE IF IsAbsent(c) THEN << ThrowEntry >>
         ELSE LET cmin == Get(c, "min")
                  cmax == Get(c, "max")
              IN (IF cmin # Undef /\ NumLt(len, ToNumber(cmin))
                  THEN << Issue(path, "Must be at least " \o JsToString(cmin) \o " characters",
                                "error", rule, value, Undef, fieldContext, <<>>) >>
                  ELSE <<>>)
                 \o
                 (IF cmax # Undef /\ NumGt(len, ToNumber(cmax))
                  THEN << Issue(path, "Must be at most " \o JsToString(cmax) \o " characters",
                                "error", rule, value, Undef, fieldContext, <<>>) >>
                  ELSE <<>>)
    [] rule.flag = "regex" ->
         IF ~IsString(value) THEN <<>>
         ELSE IF IsAbsent(c) THEN << ThrowEntry >>
         ELSE LET pattern == Get(c, "pattern")
                  name == Get(c, "name")
              IN IF ~Truthy(pattern) THEN <<>>
                 ELSE IF ~RegexCompiles(JsToString(pattern)) THEN <<>>
                 ELSE IF RegexTest(JsToString(pattern), value.s) THEN <<>>
                 ELSE << Issue(path,
                               IF Truthy(name)
                               THEN "Does not match " \o JsToString(name) \o " format"
                               ELSE "Does not match required pattern",
                               "error", rule, value,
                               IF Truthy(name) THEN name ELSE pattern,
                               fieldContext, <<>>) >>
    [] rule.flag = "email" ->
         IF IsString(value) /\ ~EmailFormatOk(value.s)
         THEN << Issue(path, "Invalid email address", "error", rule, value,
                       Str("valid email address"), fieldContext,
                       << "Use format: user@example.com" >>) >>
         ELSE <<>>
    [] rule.flag = "uri" ->
         IF IsString(value) /\ ~UrlParses(value.s)
         THEN << Issue(path, "Invalid URL", "error", rule, value, Str("valid URL"),
                       fieldContext, <<>>) >>
         ELSE <<>>
    [] rule.flag = "unique" -> <<>>
    [] rule.flag = "custom" ->
         << Issue(path, "Has custom validation that cannot be evaluated", "info", rule,
                  Undef, Undef, fieldContext, <<>>) >>
    [] OTHER -> <<>>

RECURSIVE applyRulesFrom(_, _, _, _, _)
applyRulesFrom(value, rules, i, path, fieldContext) ==
  IF i > Len(rules) THEN <<>>
  ELSE Then(applyRule(value, rules[i], path, fieldContext),
            applyRulesFrom(value, rules, i + 1, path, fieldContext))

\* applyValidationRules that reports a custom rule as a warning
applyValidationRules_customWarns(value, rules, path, field, fieldContext) ==
  LET found == applyRulesFrom(value, rules, 1, path, fieldContext)
  IN [k \in 1..Len(found) |->
        IF found[k].severity = "info" THEN [found[k] EXCEPT !.severity = "warning"]
        ELSE found[k]]

\* applyValidationRules that notes a unique rule the way it notes a custom one
applyValidationRules_uniqueInforms(value, rules, path, field, fieldContext) ==
  LET found == applyRulesFrom(value, rules, 1, path, fieldContext)
      unique == SelectSeq(rules, LAMBDA r : r.flag = "unique")
  IN IF Threw(found) THEN found
     ELSE found \o [k \in 1..Len(unique) |->
                      Issue(path, "Has unique validation that cannot be evaluated", "info",
                            unique[k], Undef, Undef, fieldContext, <<>>)]

applyValidationRules(value, rules, path, field, fieldContext) ==
  applyRulesFrom(value, rules, 1, path, fieldContext)

\* ------------------------------------------------------------------------
\* The recursive single-field validator and the checks that recurse into it
\* ------------------------------------------------------------------------
RECURSIVE validateField(_, _, _, _, _)

\* for (const f of fields) issues.push(...validateField(obj[f.name], f, ...))
RECURSIVE validateFieldsOf(_, _, _, _, _, _)
validateFieldsOf(obj, fields, i, path, typeMap, options) ==
  IF i > Len(fields) THEN <<>>
  ELSE Then(validateField(Get(obj, fields[i].name), fields[i],
                          path \o "." \o fields[i].name, typeMap, options),
            validateFieldsOf(obj, fields, i + 1, path, typeMap, options))

validateObject(value, field, path, typeMap, options, fieldContext) ==
  IF ~(value.t = "object")
  THEN << Issue(path, "Expected object, got "
                      \o (IF IsArray(value) THEN "array" ELSE TypeOf(value)),
                "error", Undef, value, Str("object"), fieldContext, <<>>) >>
  ELSE IF field.hasFields
       THEN validateFieldsOf(value, field.fields, 1, path, typeMap, options)
       ELSE <<>>

\* validateAsset that validates the nested fields only under a well-formed asset
validateAsset_nestedAfterAsset(value, field, path, typeMap, options, fieldContext) ==
  IF ~IsObjectLike(value)
  THEN << Issue(path, "Expected " \o field.type \o " object, got " \o TypeOf(value), "error",
                Undef, value, Str(field.type \o " object with asset reference"),
                fieldContext,
                << "Use format: { \"asset\": { \"_ref\": \"image-...\" } }" >>) >>
  ELSE LET assetValue == Get(value, "asset")
           assetRefValue == Get(assetValue, "_ref")
       IN IF ~Truthy(assetValue)
          THEN << Issue(path \o ".asset",
                        (IF field.type = "image" THEN "Image" ELSE "File")
                          \o " is missing asset reference",
                        "error", Undef, Undef, Str("asset reference object"), fieldContext,
                        << "Add \"asset\": { \"_ref\": \"" \o field.type \o "-...\" }" >>) >>
          ELSE IF IsObjectLike(assetValue)
                  /\ (~Truthy(assetRefValue) \/ TypeOf(assetRefValue) # "string")
          THEN << Issue(path \o ".asset._ref", "Asset is missing _ref property", "error",
                        Undef, Undef, Str("asset ID string"), fieldContext, <<>>) >>
          ELSE IF field.hasFields
          THEN validateFieldsOf(value, field.fields, 1, path, typeMap, options)
          ELSE <<>>

validateAsset(value, field, path, typeMap, options, fieldContext) ==
  IF ~IsObjectLike(value)
  THEN << Issue(path, "Expected " \o field.type \o " object, got " \o TypeOf(value), "error",
                Undef, value, Str(field.type \o " object with asset reference"),
                fieldContext,
                << "Use format: { \"asset\": { \"_ref\": \"image-...\" } }" >>) >>
  ELSE LET assetValue == Get(value, "asset")
           assetRefValue == Get(assetValue, "_ref")
       IN (IF ~Truthy(assetValue)
           THEN << Issue(path \o ".asset",
                         (IF field.type = "image" THEN "Image" ELSE "File")
                           \o " is missing asset reference",
                         "error", Undef, Undef, Str("asset reference object"), fieldContext,
                         << "Add \"asset\": { \"_ref\": \"" \o field.type \o "-...\" }" >>) >>
           ELSE IF IsObjectLike(assetValue)
                   /\ (~Truthy(assetRefValue) \/ TypeOf(assetRefValue) # "string")
           THEN << Issue(path \o ".asset._ref", "Asset is missing _ref property", "error",
                         Undef, Undef, Str("asset ID string"), fieldContext, <<>>) >>
           ELSE <<>>)
          \o
          (IF field.hasFields
           THEN validateFieldsOf(value, field.fields, 1, path, typeMap, options)
           ELSE <<>>)

\* validateArrayItem, were a missing _key an error
validateArrayItem_keyError(item, itemPath, memberTypes, typeMap, options, fieldContext) ==
  (IF IsObjectLike(item) /\ ~HasKey(item, "_key")
   THEN << Issue(itemPath, "Array item is missing _key property", "error", Undef, item,
                 Str("object with _key"), fieldContext,
                 << "Add a unique \"_key\" property to this item" >>) >>
   ELSE <<>>)
  \o
  (IF IsObjectLike(item) /\ HasKey(item, "_type")
   THEN LET itemType == Get(item, "_type")
            matches(m) == Str(m.type) = itemType \/ JsName(m) = itemType
            allowedTypes ==
              SelectSeq([i \in 1..Len(memberTypes) |->
                           IF memberTypes[i].type # "" THEN memberTypes[i].type
                           ELSE IF memberTypes[i].name = NoName THEN ""
                           ELSE memberTypes[i].name],
                        LAMBDA t : t # "")
        IN IF ~\E i \in 1..Len(memberTypes) : matches(memberTypes[i])
           THEN << Issue(itemPath \o "._type",
                         "Type \"" \o JsToString(itemType) \o "\" is not allowed in this array",
                         "error", Undef, itemType,
                         Str("one of: " \o JoinStrs(allowedTypes, ", ")), fieldContext,
                         [i \in 1..Len(allowedTypes) |->
                            "Change _type to \"" \o allowedTypes[i] \o "\""]) >>
           ELSE LET memberType ==
                      memberTypes[CHOOSE i \in 1..Len(memberTypes) :
                                    /\ matches(memberTypes[i])
                                    /\ \A j \in 1..(i - 1) : ~matches(memberTypes[j])]
                    memberTypeDef ==
                      IF IsString(itemType) /\ TypeMapHas(typeMap, itemType.s)
                      THEN TypeMapGet(typeMap, itemType.s)
                      ELSE memberType
                IN IF memberTypeDef.hasFields
                   THEN validateFieldsOf(item, memberTypeDef.fields, 1, itemPath, typeMap,
                                         options)
                   ELSE <<>>
   ELSE IF Len(memberTypes) > 0
   THEN LET expectedType == memberTypes[1].type
        IN IF expectedType # "" /\ TypeOf(item) # expectedType
           THEN << Issue(itemPath, "Expected " \o expectedType \o ", got " \o TypeOf(item),
                         "error", Undef, item, Str(expectedType), fieldContext, <<>>) >>
           ELSE <<>>
   ELSE <<>>)

\* the checks of one array item (one iteration of the loop of validateArray)
validateArrayItem(item, itemPath, memberTypes, typeMap, options, fieldContext) ==
  (IF IsObjectLike(item) /\ ~HasKey(item, "_key")
   THEN << Issue(itemPath, "Array item is missing _key property", "warning", Undef, item,
                 Str("object with _key"), fieldContext,
                 << "Add a unique \"_key\" property to this item" >>) >>
   ELSE <<>>)
  \o
  (IF IsObjectLike(item) /\ HasKey(item, "_type")
   THEN LET itemType == Get(item, "_type")
            matches(m) == Str(m.type) = itemType \/ JsName(m) = itemType
            allowedTypes ==
              SelectSeq([i \in 1..Len(memberTypes) |->
                           IF memberTypes[i].type # "" THEN memberTypes[i].type
                           ELSE IF memberTypes[i].name = NoName THEN ""
                           ELSE memberTypes[i].name],
                        LAMBDA t : t # "")
        IN IF ~\E i \in 1..Len(memberTypes) : matches(memberTypes[i])
           THEN << Issue(itemPath \o "._type",
                         "Type \"" \o JsToString(itemType) \o "\" is not allowed in this array",
                         "error", Undef, itemType,
                         Str("one of: " \o JoinStrs(allowedTypes, ", ")), fieldContext,
                         [i \in 1..Len(allowedTypes) |->
                            "Change _type to \"" \o allowedTypes[i] \o "\""]) >>
           ELSE LET memberType ==
                      memberTypes[CHOOSE i \in 1..Len(memberTypes) :
                                    /\ matches(memberTypes[i])
                                    /\ \A j \in 1..(i - 1) : ~matches(memberTypes[j])]
                    memberTypeDef ==
                      IF IsString(itemType) /\ TypeMapHas(typeMap, itemType.s)
                      THEN TypeMapGet(typeMap, itemType.s)
                      ELSE memberType
                IN IF memberTypeDef.hasFields
                   THEN validateFieldsOf(item, memberTypeDef.fields, 1, itemPath, typeMap,
                                         options)
                   ELSE <<>>
   ELSE IF Len(memberTypes) > 0
   THEN LET expectedType == memberTypes[1].type
        IN IF expectedType # "" /\ TypeOf(item) # expectedType
           THEN << Issue(itemPath, "Expected " \o expectedType \o ", got " \o TypeOf(item),
                         "error", Undef, item, Str(expectedType), fieldContext, <<>>) >>
           ELSE <<>>
   ELSE <<>>)

RECURSIVE validateArrayItems(_, _, _, _, _, _, _)
validateArrayItems(items, i, path, memberTypes, typeMap, options, fieldContext) ==
  IF i > Len(items) THEN <<>>
  ELSE Then(validateArrayItem(items[i], path \o "[" \o ToString(i - 1) \o "]", memberTypes,
                              typeMap, options, fieldContext),
            validateArrayItems(items, i + 1, path, memberTypes, typeMap, options,
                               fieldContext))

validateArray(value, field, path, typeMap, options, fieldContext) ==
  IF ~IsArray(value)
  THEN << Issue(path, "Expected array, got " \o TypeOf(value), "error", Undef, value,
                Str("array"), fieldContext,
                << "Wrap the value in an array: [" \o JSONStringify(value) \o "]" >>) >>
  ELSE validateArrayItems(value.items, 1, path, field.of, typeMap, options, fieldContext)

\* rules.some((r) => r.flag === 'presence' && r.constraint === 'required')
isRequired(rules) ==
  \E i \in 1..Len(rules) :
    rules[i].flag = "presence" /\ rules[i].constraint = Str("required")

\* the switch of validateField on field.type
structuralCheck(value, field, path, typeMap, options, rules, fieldContext) ==
  CASE field.type \in {"string", "text"} ->
         validateString(value, field, path, rules, fieldContext)
    [] field.type = "number" -> validateNumber(value, field, path, rules, fieldContext)
    [] field.type = "boolean" -> validateBoolean(value, path, fieldContext)
    [] field.type \in {"date", "datetime"} -> validateDate(value, field, path, fieldContext)
    [] field.type = "array" ->
         validateArray(value, field, path, typeMap, options, fieldContext)
    [] field.type = "object" ->
         validateObject(value, field, path, typeMap, options, fieldContext)
    [] field.type = "reference" -> validateReference(value, field, path, fieldContext)
    [] field.type \in {"image", "file"} ->
         validateAsset(value, field, path, typeMap, options, fieldContext)
    [] field.type = "slug" -> validateSlug(value, field, path, rules, fieldContext)
    [] field.type = "url" -> validateUrl(value, path, rules, fieldContext)
    [] field.type = "block" ->
         validateBlock(value, field, path, typeMap, options, fieldContext)
    [] OTHER ->
         IF TypeMapHas(typeMap, field.type)
         THEN LET customType == TypeMapGet(typeMap, field.type)
              IN IF customType.type = "object" /\ customType.hasFields
                 THEN validateObject(value, customType, path, typeMap, options, fieldContext)
                 ELSE <<>>
         ELSE <<>>

\* validateField that skips an optional value only when it is undefined, not null
validateField_nullPresent(value, field, path, typeMap, options) ==
  LET fieldContext == FieldContext(field)
      rules == getValidationRules(field)
  IN IF isRequired(rules) /\ IsAbsent(value)
     THEN << Issue(path,
                   (IF field.title # "" THEN field.title ELSE field.name) \o " is required",
                   "error", Required, value, Str(field.type), fieldContext,
                   << "Provide a value for " \o field.name >>) >>
     ELSE IF value = Undef THEN <<>>
     ELSE Then(structuralCheck(value, field, path, typeMap, options, rules, fieldContext),
               applyValidationRules(value, rules, path, field, fieldContext))

\* validateField that applies the rules before the structural check
validateField_rulesFirst(value, field, path, typeMap, options) ==
  LET fieldContext == FieldContext(field)
      rules == getValidationRules(field)
  IN IF isRequired(rules) /\ IsAbsent(value)
     THEN << Issue(path,
                   (IF field.title # "" THEN field.title ELSE field.name) \o " is required",
                   "error", Required, value, Str(field.type), fieldContext,
                   << "Provide a value for " \o field.name >>) >>
     ELSE IF IsAbsent(value) THEN <<>>
     ELSE Then(applyValidationRules(value, rules, path, field, fieldContext),
               structuralCheck(value, field, path, typeMap, options, rules, fieldContext))

validateField(value, field, path, typeMap, options) ==
  LET fieldContext == FieldContext(field)
      rules == getValidationRules(field)
  IN IF isRequired(rules) /\ IsAbsent(value)
     THEN << Issue(path,
                   (IF field.title # "" THEN field.title ELSE field.name) \o " is required",
                   "error", Required, value, Str(field.type), fieldContext,
                   << "Provide a value for " \o field.name >>) >>
     ELSE IF IsAbsent(value) THEN <<>>
     ELSE Then(structuralCheck(value, field, path, typeMap, options, rules, fieldContext),
               applyValidationRules(value, rules, path, field, fieldContext))

\* ------------------------------------------------------------------------
\* The recursion of validateField
\* ------------------------------------------------------------------------
MaxOf(S) == IF S = {} THEN 0 ELSE CHOOSE m \in S : \A x \in S : x <= m

\* the fields validateArray validates for an item: those of the type the
\* item's _type names, when a member type matches it
memberFieldsOf(item, memberTypes, typeMap) ==
  IF ~(IsObjectLike(item) /\ HasKey(item, "_type")) THEN <<>>
  ELSE LET itemType == Get(item, "_type")
           matches(m) == Str(m.type) = itemType \/ JsName(m) = itemType
       IN IF ~\E i \in 1..Len(memberTypes) : matches(memberTypes[i]) THEN <<>>
          ELSE IF IsString(itemType) /\ TypeMapHas(typeMap, itemType.s)
          THEN TypeMapGet(typeMap, itemType.s).fields
          ELSE memberTypes[CHOOSE i \in 1..Len(memberTypes) :
                             /\ matches(memberTypes[i])
                             /\ \A j \in 1..(i - 1) : ~matches(memberTypes[j])].fields

\* the calls of validateField a call of validateField makes, each as the
\* value and the field it is given
nestedCalls(value, field, typeMap) ==
  LET over(obj, fields) ==
        { [value |-> Get(obj, fields[k].name), field |-> fields[k]] : k \in 1..Len(fields) }
  IN CASE field.type = "object" ->
            IF value.t = "object" THEN over(value, field.fields) ELSE {}
       [] field.type \in {"image", "file"} ->
            IF IsObjectLike(value) THEN over(value, field.fields) ELSE {}
       [] field.type = "array" ->
            IF IsArray(value)
            THEN UNION { over(value.items[n], memberFieldsOf(value.items[n], field.of, typeMap)) :
                         n \in 1..Len(value.items) }
            ELSE {}
       [] field.type \in {"string", "text", "number", "boolean", "date", "datetime",
                          "reference", "slug", "url", "block"} -> {}
       [] OTHER ->
            IF /\ TypeMapHas(typeMap, field.type)
               /\ TypeMapGet(typeMap, field.type).type = "object"
               /\ value.t = "object"
            THEN over(value, TypeMapGet(typeMap, field.type).fields)
            ELSE {}

\* validateField, were an absent value validated against its field like a
\* present one
RECURSIVE validateFieldDepth_descendsAbsent(_, _, _, _)
validateFieldDepth_descendsAbsent(value, field, typeMap, limit) ==
  IF limit = 0 THEN 1
  ELSE 1 + MaxOf({ validateFieldDepth_descendsAbsent(c.value, c.field, typeMap, limit - 1) :
                   c \in nestedCalls(IF IsAbsent(value) THEN Obj(<<>>) ELSE value,
                                     field, typeMap) })

\* the depth of the deepest call of validateField under validateField(value,
\* field, ...), this call counted; limit + 1 when the recursion is deeper
\* than limit
RECURSIVE validateFieldDepth(_, _, _, _)
validateFieldDepth(value, field, typeMap, limit) ==
  IF limit = 0 THEN 1
  ELSE IF IsAbsent(value) THEN 1
  ELSE 1 + MaxOf({ validateFieldDepth(c.value, c.field, typeMap, limit - 1) :
                   c \in nestedCalls(value, field, typeMap) })

\* ------------------------------------------------------------------------
\* validateDocument, one step per statement group
\* ------------------------------------------------------------------------
VARIABLES document, schemaType, allTypes, options, pc, issues, idx, visited,
          calls, result, memo, formatted

\* SchemaClient: the operation called and its arguments, what the request of
\* the underlying client does, and how the operation ended
VARIABLES operation, reply, outcome

\* the options of the skeleton generation a document comes from, if it does
VARIABLES skeletonOptions

clientVars == <<operation, reply, outcome>>

vars == <<document, schemaType, allTypes, options, pc, issues, idx, visited,
          calls, result, memo, formatted, operation, reply, outcome, skeletonOptions>>

NoResult == [none |-> TRUE]
NoMemo == [none |-> TRUE]
NoFormat == [none |-> TRUE]
NoOperation == [none |-> TRUE]
NoReply == [none |-> TRUE]
NoOutcome == [none |-> TRUE]
NoSkeleton == [none |-> TRUE]

\* const { includeWarnings = true, includeInfo = false, stopOnFirstError = false } = options
includeWarnings == IF options.includeWarnings = Undef THEN TRUE
                   ELSE Truthy(options.includeWarnings)
\* includeInfo with the default of includeWarnings
includeInfo_defaultTrue == IF options.includeInfo = Undef THEN TRUE
                           ELSE Truthy(options.includeInfo)

includeInfo == IF options.includeInfo = Undef THEN FALSE ELSE Truthy(options.includeInfo)
stopOnFirstError == IF options.stopOnFirstError = Undef THEN FALSE
                    ELSE Truthy(options.stopOnFirstError)

\* an issue list that outlives the call instead of being created by it
FreshIssues_kept(previous) == previous

\* const issues: ValidationIssue[] = []
FreshIssues(previous) == <<>>

\* issues.filter((i) => i.severity === sev)
BySeverity(seq, sev) == SelectSeq(seq, LAMBDA i : i.severity = sev)

\* issues.some((i) => i.severity === 'error')
HasError(seq) == \E i \in 1..Len(seq) : seq[i].severity = "error"

\* docTypeIssues that reports only a _type that differs, not an absent one
docTypeIssues_absentAccepted(doc, type) ==
  LET docType == Get(doc, "_type") IN
  IF Truthy(docType) /\ docType # Str(type.name)
  THEN << Issue("_type",
                "Document type \"" \o JsToString(docType)
                  \o "\" does not match expected type \"" \o type.name \o "\"",
                "error", Undef, docType, Str(type.name), Undef,
                << "Change _type to \"" \o type.name
                   \o "\" or use the correct schema type for validation" >>) >>
  ELSE <<>>

\* the issue of the _type check, if any
docTypeIssues(doc, type) ==
  LET docType == Get(doc, "_type") IN
  IF ~Truthy(docType)
  THEN << Issue("_type", "Document is missing required _type field", "error", Undef, Undef,
                Str(type.name), Undef,
                << "Add \"_type\": \"" \o type.name \o "\" to the document" >>) >>
  ELSE IF docType # Str(type.name)
  THEN << Issue("_type",
                "Document type \"" \o JsToString(docType)
                  \o "\" does not match expected type \"" \o type.name \o "\"",
                "error", Undef, docType, Str(type.name), Undef,
                << "Change _type to \"" \o type.name
                   \o "\" or use the correct schema type for validation" >>) >>
  ELSE <<>>

\* stopsBefore that breaks on a recorded error whether or not the option is set
stopsBefore_withoutOption(found, stop) == HasError(found)

\* stopsBefore that breaks on any recorded issue, warnings included
stopsBefore_onAnyIssue(found, stop) == stop /\ Len(found) > 0

\* the loop condition of the root fields: the break of stopOnFirstError
stopsBefore(found, stop) == stop /\ HasError(found)

\* "N error(s)", "N warning(s)"
countText(n, word) == ToString(n) \o " " \o word \o (IF n = 1 THEN "" ELSE "s")

\* buildSummary that lists the warning and info counts even when they are zero
buildSummary_zeroCounts(errors, warnings, info) ==
  LET parts == << countText(Len(errors), "error"), countText(Len(warnings), "warning"),
                  ToString(Len(info)) \o " info" >>
  IN IF Len(errors) = 0
     THEN "Document is valid (" \o countText(Len(warnings), "warning") \o ")"
     ELSE "Validation failed: " \o JoinStrs(parts, ", ")

\* the summary line
buildSummary(errors, warnings, info) ==
  LET parts == (IF Len(errors) > 0 THEN << countText(Len(errors), "error") >> ELSE <<>>)
               \o (IF Len(warnings) > 0 THEN << countText(Len(warnings), "warning") >>
                   ELSE <<>>)
               \o (IF Len(info) > 0 THEN << ToString(Len(info)) \o " info" >> ELSE <<>>)
  IN IF Len(errors) = 0
     THEN "Document is valid"
          \o (IF Len(warnings) > 0 THEN " (" \o countText(Len(warnings), "warning") \o ")"
              ELSE "")
     ELSE "Validation failed: " \o JoinStrs(parts, ", ")

\* buildResult with valid taken from the reported issues instead of the errors
buildResult_validFromReported(found, type, withWarnings, withInfo) ==
  LET errors == BySeverity(found, "error")
      warnings == IF withWarnings THEN BySeverity(found, "warning") ELSE <<>>
      info == IF withInfo THEN BySeverity(found, "info") ELSE <<>>
      filteredIssues == errors \o (IF withWarnings THEN warnings ELSE <<>>)
                               \o (IF withInfo THEN info ELSE <<>>)
  IN [valid |-> Len(filteredIssues) = 0,
      issues |-> filteredIssues,
      errors |-> errors,
      warnings |-> warnings,
      info |-> info,
      documentType |-> type.name,
      summary |-> buildSummary(errors, warnings, info)]

\* buildResult that reports the kept issues in the order they were found
buildResult_discoveryOrder(found, type, withWarnings, withInfo) ==
  LET errors == BySeverity(found, "error")
      warnings == IF withWarnings THEN BySeverity(found, "warning") ELSE <<>>
      info == IF withInfo THEN BySeverity(found, "info") ELSE <<>>
      kept(i) == \/ i.severity = "error"
                 \/ withWarnings /\ i.severity = "warning"
                 \/ withInfo /\ i.severity = "info"
  IN [valid |-> Len(errors) = 0,
      issues |-> SelectSeq(found, kept),
      errors |-> errors,
      warnings |-> warnings,
      info |-> info,
      documentType |-> type.name,
      summary |-> buildSummary(errors, warnings, info)]

\* the severity filter and the returned ValidationResult
buildResult(found, type, withWarnings, withInfo) ==
  LET errors == BySeverity(found, "error")
      warnings == IF withWarnings THEN BySeverity(found, "warning") ELSE <<>>
      info == IF withInfo THEN BySeverity(found, "info") ELSE <<>>
      filteredIssues == errors \o (IF withWarnings THEN warnings ELSE <<>>)
                               \o (IF withInfo THEN info ELSE <<>>)
  IN [valid |-> Len(errors) = 0,
      issues |-> filteredIssues,
      errors |-> errors,
      warnings |-> warnings,
      info |-> info,
      documentType |-> type.name,
      summary |-> buildSummary(errors, warnings, info)]

\* lines 417-445: a fresh issue list, the type map and the _type check
CheckDocType ==
  /\ pc = "start"
  /\ issues' = FreshIssues(issues) \o docTypeIssues(document, schemaType)
  /\ idx' = 1
  /\ visited' = <<>>
  /\ calls' = 0
  /\ result' = NoResult
  /\ pc' = "fields"
  /\ UNCHANGED <<clientVars, skeletonOptions>>
  /\ UNCHANGED <<document, schemaType, allTypes, options, memo, formatted>>

\* lines 449-461: one iteration of the loop over the root fields
ValidateRootField ==
  /\ pc = "fields"
  /\ schemaType.hasFields
  /\ idx <= Len(schemaType.fields)
  /\ ~stopsBefore(issues, stopOnFirstError)
  /\ LET field == schemaType.fields[idx]
         value == Get(document, field.name)
         fieldIssues == validateField(value, field, field.name, allTypes, options)
     IN /\ issues' = issues \o SelectSeq(fieldIssues,
                                         LAMBDA i : i.severity \notin {"call", "throw"})
        /\ calls' = calls + Len(BySeverity(fieldIssues, "call"))
        /\ visited' = Append(visited, [name |-> field.name, errorBefore |-> HasError(issues)])
        /\ pc' = IF Threw(fieldIssues) THEN "threw" ELSE "fields"
  /\ idx' = idx + 1
  /\ UNCHANGED <<clientVars, skeletonOptions>>
  /\ UNCHANGED <<document, schemaType, allTypes, options, result, memo, formatted>>

\* line 450: the break once an error is recorded and stopOnFirstError is set
BreakOnFirstError ==
  /\ pc = "fields"
  /\ schemaType.hasFields
  /\ idx <= Len(schemaType.fields)
  /\ stopsBefore(issues, stopOnFirstError)
  /\ pc' = "filter"
  /\ UNCHANGED <<clientVars, skeletonOptions>>
  /\ UNCHANGED <<document, schemaType, allTypes, options, issues, idx, visited, calls,
                 result, memo, formatted>>

\* the loop ran out of fields, or the root type declares none
EndOfFields ==
  /\ pc = "fields"
  /\ ~schemaType.hasFields \/ idx > Len(schemaType.fields)
  /\ pc' = "filter"
  /\ UNCHANGED <<clientVars, skeletonOptions>>
  /\ UNCHANGED <<document, schemaType, allTypes, options, issues, idx, visited, calls,
                 result, memo, formatted>>

\* lines 464-493: the severity filter, the summary and the return
BuildResult ==
  /\ pc = "filter"
  /\ result' = buildResult(issues, schemaType, includeWarnings, includeInfo)
  /\ pc' = "done"
  /\ UNCHANGED <<clientVars, skeletonOptions>>
  /\ UNCHANGED <<document, schemaType, allTypes, options, issues, idx, visited, calls,
                 memo, formatted>>

\* ------------------------------------------------------------------------
\* The formatters of a result
\* ------------------------------------------------------------------------
\* the glyphs of the report, written in ASCII: U+2717 (error), U+26A0
\* (warning), U+2139 (info) and the arrow U+2192 before a suggestion
ErrorGlyph == "X"
WarningGlyph == "!"
InfoGlyph == "i"
SuggestionArrow == "->"

\* the lines formatValidationIssues pushes for one issue
issueLines(issue) ==
  LET icon == IF issue.severity = "error" THEN ErrorGlyph
              ELSE IF issue.severity = "warning" THEN WarningGlyph ELSE InfoGlyph
  IN << icon \o " " \o issue.path \o ": " \o issue.message >>
     \o (IF Len(issue.suggestions) > 0
         THEN << "  " \o SuggestionArrow \o " " \o issue.suggestions[1] >>
         ELSE <<>>)

RECURSIVE reportLines(_)
reportLines(list) ==
  IF Len(list) = 0 THEN <<>> ELSE issueLines(list[1]) \o reportLines(Tail(list))

\* formatValidationIssues that prints no suggestion
formatValidationIssues_noSuggestions(r) ==
  JoinStrs(<< r.summary, "" >> \o [k \in 1..Len(r.issues) |-> issueLines(r.issues[k])[1]],
           "\n")

formatValidationIssues(r) ==
  JoinStrs(<< r.summary, "" >> \o reportLines(r.issues), "\n")

\* formatValidationForAgent that maps every reported issue
formatValidationForAgent_allIssues(r) ==
  [valid |-> r.valid,
   summary |-> r.summary,
   errorCount |-> Len(r.errors),
   errors |-> [k \in 1..Len(r.issues) |->
                 [path |-> r.issues[k].path,
                  message |-> r.issues[k].message,
                  suggestion |-> IF Len(r.issues[k].suggestions) > 0
                                 THEN Str(r.issues[k].suggestions[1]) ELSE Undef,
                  expected |-> r.issues[k].expected]]]

formatValidationForAgent(r) ==
  [valid |-> r.valid,
   summary |-> r.summary,
   errorCount |-> Len(r.errors),
   errors |-> [k \in 1..Len(r.errors) |->
                 [path |-> r.errors[k].path,
                  message |-> r.errors[k].message,
                  suggestion |-> IF Len(r.errors[k].suggestions) > 0
                                 THEN Str(r.errors[k].suggestions[1]) ELSE Undef,
                  expected |-> r.errors[k].expected]]]

\* the caller formats the result it was returned for a terminal or a log
FormatValidationIssues ==
  /\ pc = "done"
  /\ formatted' = [kind |-> "issues", text |-> formatValidationIssues(result)]
  /\ pc' = "formatted"
  /\ UNCHANGED <<clientVars, skeletonOptions>>
  /\ UNCHANGED <<document, schemaType, allTypes, options, issues, idx, visited, calls,
                 result, memo>>

\* the caller formats the result it was returned for an agent
FormatValidationForAgent ==
  /\ pc = "done"
  /\ formatted' = [kind |-> "agent", value |-> formatValidationForAgent(result)]
  /\ pc' = "formatted"
  /\ UNCHANGED <<clientVars, skeletonOptions>>
  /\ UNCHANGED <<document, schemaType, allTypes, options, issues, idx, visited, calls,
                 result, memo>>

\* ------------------------------------------------------------------------
\* The explored schemas
\* ------------------------------------------------------------------------
\* the article type of the end-to-end example: title, slug and tags
articleType ==
  WithFields(Node("document", "article"),
    << WithTitle(WithRules(Node("string", "title"),
                           << Required, Rule("min", Num(2)), Rule("max", Num(5)) >>),
                 "Title"),
       WithRules(Node("slug", "slug"), << Required, Rule("custom", Undef) >>),
       WithRules(WithOf(Node("array", "tags"), << Node("string", NoName) >>),
                 << Rule("min", Num(1)), Rule("max", Num(2)) >>) >>)

\* numbers, option lists and rules the engine does not execute
productType ==
  WithFields(Node("document", "product"),
    << WithRules(Node("number", "price"),
                 << Rule("min", Num(1)), Rule("max", Num(3)), Rule("integer", Undef),
                    Rule("positive", Undef), Rule("custom", Undef) >>),
       WithRules(WithList(Node("string", "status"),
                          Arr(<< Str("draft"), Obj(<< P("title", Str("Live")),
                                                      P("value", Str("published")) >>) >>)),
                 << Rule("unique", Undef), Rule("custom", Undef) >>),
       WithRules(Node("string", "contact"), << Rule("email", Undef) >>) >>)

\* a reusable object type, resolved through the type catalog
seoType ==
  WithFields(Node("object", "seo"),
    << WithRules(Node("string", "metaTitle"), << Required, Rule("max", Num(5)) >>),
       WithRules(Node("string", "metaDescription"), << Required >>) >>)

\* an object type with a field of its own type
nodeType ==
  WithFields(Node("object", "node"),
    << WithRules(Node("string", "label"), << Required >>),
       Node("node", "child") >>)

\* nesting: custom object kinds, an inline object, a reference and an image
pageType ==
  WithFields(Node("document", "page"),
    << WithRules(Node("seo", "seo"), << Required >>),
       WithRules(WithTo(Node("reference", "author"),
                        << Node("author", NoName), Node("person", NoName) >>),
                 << Rule("custom", Undef) >>),
       WithFields(Node("image", "hero"),
                  << WithRules(Node("string", "alt"), << Required >>) >>),
       Node("node", "tree") >>)

\* arrays of objects and portable text
postType ==
  WithFields(Node("document", "post"),
    << WithRules(Node("slug", "slug"), << Rule("custom", Undef) >>),
       WithOf(Node("array", "body"),
              << Node("block", NoName),
                 WithFields(Node("object", "callout"),
                            << WithRules(Node("string", "text"), << Required >>) >>),
                 Node("seo", NoName) >>),
       Node("block", "intro") >>)

\* dates, urls, booleans, files and pattern rules
eventType ==
  WithFields(Node("document", "event"),
    << WithRules(Node("date", "day"), << Required >>),
       Node("datetime", "startsAt"),
       WithRules(Node("url", "link"), << Rule("uri", Undef) >>),
       Node("boolean", "open"),
       WithRules(Node("string", "code"),
                 << Rule("regex", Obj(<< P("pattern", Str("^[A-Z]")),
                                         P("name", Str("code")) >>)),
                    Rule("regex", Obj(<< P("pattern", Str("[")) >>)),
                    Rule("length", Obj(<< P("min", Num(2)), P("max", Num(3)) >>)) >>) >>)

\* schemas whose rules or options are malformed
brokenType ==
  WithFields(Node("document", "broken"),
    << WithList(Node("string", "choice"), Arr(<< Str("a"), Null >>)),
       WithRules(Node("string", "sized"),
                 << Rule("min", Undef), Rule("max", Str("many")), Rule("length", Undef) >>),
       WithRules(Node("text", "shaped"), << Rule("regex", Undef) >>),
       WithRules(Node("number", "count"), << Rule("min", Undef), Rule("length", Undef),
                                             Rule("regex", Undef) >>) >>)

\* an image and a file, each with nested fields of its own
mediaType ==
  WithFields(Node("document", "media"),
    << WithFields(Node("image", "cover"),
                  << WithTitle(WithRules(Node("string", "alt"), << Required >>), "Alt text"),
                     WithRules(Node("string", "caption"),
                               << Rule("max", Num(5)), Rule("custom", Undef),
                                  Rule("custom", Str("isCaption")) >>) >>),
       WithFields(Node("file", "attachment"),
                  << WithRules(Node("string", "label"), << Required >>) >>) >>)

\* required fields of every kind a skeleton gives a default to
profileType ==
  WithFields(Node("document", "profile"),
    << WithInitial(WithRules(Node("string", "name"), << Required, Rule("min", Num(2)) >>),
                   Str("New")),
       WithRules(WithList(Node("string", "role"),
                          Arr(<< Obj(<< P("title", Str("Editor")),
                                        P("value", Str("editor")) >>),
                                 Obj(<< P("title", Str("Admin")),
                                        P("value", Str("admin")) >>) >>)),
                 << Required >>),
       WithRules(Node("number", "age"), << Required >>),
       WithRules(Node("boolean", "active"), << Required >>),
       WithRules(Node("array", "links"), << Required >>),
       WithRules(WithFields(Node("object", "address"),
                            << WithRules(Node("string", "city"), << Required >>),
                               Node("string", "zip") >>),
                 << Required >>),
       Node("text", "bio") >>)

\* arrays of primitives of several kinds and of one custom object kind
listType ==
  WithFields(Node("document", "list"),
    << WithOf(Node("array", "mixed"), << Node("string", NoName), Node("number", NoName) >>),
       WithOf(Node("array", "things"), << Node("seo", NoName) >>) >>)

\* object types that contain each other, and a document type that nests
\* them and the self-containing node type
alphaType == WithFields(Node("object", "alpha"), << Node("beta", "beta") >>)

betaType ==
  WithFields(Node("object", "beta"),
    << WithRules(Node("string", "label"), << Required >>), Node("alpha", "alpha") >>)

treeType ==
  WithFields(Node("document", "tree"),
    << WithRules(Node("node", "root"), << Required >>),
       Node("alpha", "pair"),
       WithOf(Node("array", "items"), << Node("node", NoName) >>) >>)

\* a root type that declares no fields
emptyType == Node("document", "empty")

\* allTypes: every known type
Catalog ==
  << articleType, productType, seoType, nodeType, pageType, postType, eventType,
     brokenType, mediaType, profileType, listType, alphaType, betaType, treeType,
     emptyType >>

\* ------------------------------------------------------------------------
\* The explored documents and options
\* ------------------------------------------------------------------------
\* arrays of at most n items drawn from pool
ArraysOf(pool, n) == { Arr(f) : f \in UNION { [1..k -> pool] : k \in 0..n } }

Opts(w, i, s, r) ==
  [includeWarnings |-> w, includeInfo |-> i, stopOnFirstError |-> s, resolveReference |-> r]

\* {} and every explicit setting of the three flags, with a resolveReference callback
AllOptions ==
  { Opts(Undef, Undef, Undef, FALSE) }
  \cup { Opts(Bool(w), Bool(i), Bool(s), TRUE) : w \in BOOLEAN, i \in BOOLEAN, s \in BOOLEAN }

SomeOptions ==
  { Opts(Undef, Undef, Undef, FALSE),
    Opts(Undef, Bool(TRUE), Bool(TRUE), TRUE),
    Opts(Bool(FALSE), Bool(TRUE), Undef, TRUE) }

Input(doc, type, types, opts) ==
  [document |-> doc, schemaType |-> type, allTypes |-> types, options |-> opts]

ArticleDocs ==
  { Obj(<< P("_type", Str("article")), P("title", a), P("slug", b), P("tags", c) >>) :
      a \in { Undef, Str("H"), Str("Hi"), Str("Hello World") },
      b \in { Undef, Obj(<< P("current", Str("hi")) >>),
              Obj(<< P("current", Str("Hi There")) >>), Str("hi") },
      c \in { Undef } \cup ArraysOf({ Str("a"), Num(1) }, MaxItems) }

\* article documents without a _type, or with another type's
MistypedDocs ==
  { Obj(<< P("_type", t), P("title", a), P("slug", b), P("tags", c) >>) :
      t \in { Undef, Str("page") },
      a \in { Undef, Str("Hi") },
      b \in { Obj(<< P("current", Str("hi")) >>), Obj(<< P("current", Str("Hi There")) >>) },
      c \in { Undef, Arr(<< Str("a") >>) } }
  \cup { Obj(<< P("title", Str("Hi")) >>) }

ProductDocs ==
  { Obj(<< P("_type", Str("product")), P("price", a), P("status", b), P("contact", c) >>) :
      a \in { Undef, NaN, Str("3") } \cup { Half(h) : h \in (0 - 1)..(2 * MaxNum + 1) },
      b \in { Undef, Str("draft"), Str("published"), Str("archived"), Num(1) },
      c \in { Undef, Null, Str("a@b.co"), Str("nope") } }

ImageAsset == Obj(<< P("_ref", Str("image-1")) >>)

PageDocs ==
  { Obj(<< P("_type", Str("page")), P("seo", a), P("author", b), P("hero", c),
           P("tree", d) >>) :
      a \in { Undef, Obj(<<>>), Arr(<<>>),
              Obj(<< P("metaTitle", Str("Hello!")), P("metaDescription", Str("d")) >>),
              Obj(<< P("metaTitle", Str("Hi")), P("metaDescription", Null) >>) },
      b \in { Undef, Str("a1"),
              Obj(<< P("_ref", Str("a1")) >>),
              Obj(<< P("_type", Str("reference")), P("_ref", Str("a1")) >>),
              Obj(<< P("_type", Str("reference")) >>),
              Obj(<< P("_type", Str("author")), P("_ref", Str("a1")) >>),
              Obj(<< P("_type", Str("category")), P("_ref", Str("")) >>),
              Obj(<< P("_type", Str("category")), P("_ref", Num(7)) >>) },
      c \in { Undef, Str("image-1"), Obj(<<>>),
              Obj(<< P("asset", ImageAsset), P("alt", Str("x")) >>),
              Obj(<< P("asset", ImageAsset) >>),
              Obj(<< P("asset", Str("image-1")), P("alt", Str("x")) >>),
              Obj(<< P("asset", Obj(<<>>)) >>) },
      d \in { Undef,
              Obj(<< P("child", Obj(<< P("child", Obj(<<>>)) >>)) >>),
              Obj(<< P("label", Str("a")),
                     P("child", Obj(<< P("label", Str("b")), P("child", Num(1)) >>)) >>) } }

BodyItems ==
  { Null,
    Obj(<< P("_type", Str("block")), P("_key", Str("k1")) >>),
    Obj(<< P("_type", Str("callout")) >>),
    Obj(<< P("_type", Str("video")), P("_key", Str("k2")) >>),
    Obj(<< P("_type", Str("seo")), P("_key", Str("k3")), P("metaTitle", Str("Hello!")) >>) }

PostDocs ==
  { Obj(<< P("_type", Str("post")), P("body", a), P("intro", b), P("slug", c) >>) :
      a \in { Undef, Str("x") } \cup ArraysOf(BodyItems, MaxObjItems),
      b \in { Undef, Str("x"),
              Obj(<< P("_type", Str("block")), P("_key", Str("k")),
                     P("children", Arr(<< Obj(<< P("_type", Str("span")),
                                                 P("_key", Str("s")) >>) >>)) >>),
              Obj(<< P("_type", Str("block")), P("_key", Str("k")),
                     P("children", Arr(<< Str("x"), Obj(<<>>) >>)) >>),
              Obj(<< P("_type", Str("block")), P("_key", Str("k")),
                     P("children", Arr(<< Obj(<<>>), Null >>)) >>),
              Obj(<< P("_type", Str("block")), P("children", Str("x")) >>) },
      c \in { Undef, Obj(<< P("current", Str("A b")) >>) } }

EventDocs ==
  { Obj(<< P("_type", Str("event")), P("day", a), P("startsAt", b), P("link", c),
           P("open", d), P("code", e) >>) :
      a \in { Undef, Str("2024-01-15"), Str("soon"), Num(1) },
      b \in { Undef, Str("2024-01-15T10:30:00Z"), Str("2024-13-01") },
      c \in { Undef, Str("https://example.com"), Str("not a url"), Str("http://") },
      d \in { Bool(TRUE), Str("yes") },
      e \in { Undef, Str("AB"), Str("ab"), Str("A"), Str("ABCD"), Str("abcd") } }

BrokenDocs ==
  { Obj(<< P("_type", Str("broken")), P("choice", a), P("sized", b), P("shaped", c),
           P("count", d) >>) :
      a \in { Undef, Str("a"), Num(1) },
      b \in { Undef, Str("abc"), Num(1) },
      c \in { Undef, Str("abc"), Num(1) },
      d \in { Undef, Num(1), Str("x") } }

\* post documents that vary the slug only
SlugDocs ==
  { Obj(<< P("_type", Str("post")), P("slug", c) >>) :
      c \in { Null, Num(3), Bool(TRUE), Obj(<<>>), Obj(<< P("current", Str("")) >>),
              Obj(<< P("current", Num(1)) >>), Obj(<< P("current", Null) >>),
              Obj(<< P("current", Str(" Hi--There ")) >>),
              Obj(<< P("current", Str("my-slug-2")) >>),
              Obj(<< P("current", Str("a_b")) >>),
              Obj(<< P("current", Str("?!")) >>) } }

\* media documents: assets that are missing, malformed or well-formed, with
\* and without their nested fields
MediaDocs ==
  { Obj(<< P("_type", Str("media")), P("cover", a), P("attachment", b) >>) :
      a \in { Undef, Str("image-1"), Arr(<<>>), Obj(<<>>),
              Obj(<< P("asset", ImageAsset) >>),
              Obj(<< P("asset", ImageAsset), P("alt", Str("x")),
                     P("caption", Str("too long")) >>),
              Obj(<< P("asset", Str("image-1")), P("alt", Num(1)) >>),
              Obj(<< P("asset", Obj(<<>>)), P("alt", Null), P("caption", Str("ok")) >>) },
      b \in { Undef, Obj(<< P("asset", Obj(<< P("_ref", Str("file-1")) >>)) >>),
              Obj(<< P("label", Str("l")) >>), Obj(<< P("asset", Obj(<<>>)) >>),
              Obj(<< P("asset", Obj(<< P("_ref", Num(1)) >>)), P("label", Str("l")) >>) } }

\* list documents: primitives in an array of several kinds, and primitives
\* and untyped objects in an array of one object kind
ListDocs ==
  { Obj(<< P("_type", Str("list")), P("mixed", a), P("things", b) >>) :
      a \in { Undef, Arr(<< Str("a") >>), Arr(<< Num(1) >>),
              Arr(<< Num(1), Str("a"), Bool(TRUE) >>) },
      b \in { Undef, Arr(<< Obj(<< P("_key", Str("k")) >>) >>), Arr(<< Str("x") >>),
              Arr(<< Obj(<< P("_type", Str("seo")), P("metaTitle", Str("Hi")),
                            P("metaDescription", Str("d")) >>) >>) } }

\* tree documents: values nested in the self-containing and the mutually
\* containing object types
TreeDocs ==
  { Obj(<< P("_type", Str("tree")), P("root", a), P("pair", b), P("items", c) >>) :
      a \in { Undef, Obj(<<>>),
              Obj(<< P("label", Str("a")),
                     P("child", Obj(<< P("label", Str("b")),
                                       P("child", Obj(<< P("child", Obj(<<>>)) >>)) >>)) >>) },
      b \in { Undef, Str("x"),
              Obj(<< P("beta", Obj(<< P("alpha", Obj(<< P("beta", Obj(<<>>)) >>)) >>)) >>) },
      c \in { Undef,
              Arr(<< Obj(<< P("_type", Str("node")), P("_key", Str("k")),
                            P("child", Obj(<<>>)) >>) >>) } }

EmptyDocs ==
  { Obj(<<>>), Obj(<< P("_type", Str("empty")) >>), Obj(<< P("_type", Str("")) >>),
    Obj(<< P("_type", Num(0)) >>), Obj(<< P("_type", Num(5)) >>),
    Obj(<< P("_type", Null) >>), Obj(<< P("_type", Str("empty")), P("title", Str("x")) >>) }

Inputs ==
  { Input(d, articleType, Catalog, o) : d \in ArticleDocs \cup MistypedDocs,
                                        o \in AllOptions }
  \cup { Input(d, productType, Catalog, o) : d \in ProductDocs, o \in SomeOptions }
  \cup { Input(d, pageType, Catalog, o) : d \in PageDocs, o \in SomeOptions }
  \cup { Input(d, pageType, <<>>, Opts(Undef, Undef, Undef, FALSE)) : d \in PageDocs }
  \cup { Input(d, postType, Catalog, o) : d \in PostDocs \cup SlugDocs, o \in SomeOptions }
  \cup { Input(d, eventType, Catalog, o) : d \in EventDocs, o \in SomeOptions }
  \cup { Input(d, brokenType, Catalog, o) : d \in BrokenDocs, o \in SomeOptions }
  \cup { Input(d, listType, Catalog, o) : d \in ListDocs, o \in SomeOptions }
  \cup { Input(d, mediaType, Catalog, o) : d \in MediaDocs, o \in SomeOptions }
  \cup { Input(d, emptyType, c, o) : d \in EmptyDocs, c \in { Catalog, <<>> },
                                     o \in AllOptions }

Init ==
  /\ \E in \in Inputs :
       /\ document = in.document
       /\ schemaType = in.schemaType
       /\ allTypes = in.allTypes
       /\ options = in.options
  /\ pc = "start"
  /\ issues = <<>>
  /\ idx = 1
  /\ visited = <<>>
  /\ calls = 0
  /\ result = NoResult
  /\ memo = NoMemo
  /\ formatted = NoFormat
  /\ operation = NoOperation
  /\ reply = NoReply
  /\ outcome = NoOutcome
  /\ skeletonOptions = NoSkeleton

Next ==
  \/ CheckDocType \/ ValidateRootField \/ BreakOnFirstError \/ EndOfFields \/ BuildResult
  \/ FormatValidationIssues \/ FormatValidationForAgent

Spec == Init /\ [][Next]_vars

\* a call of validateDocument on a tree document, which runs to its end once
\* it has started
InitNested ==
  /\ document \in TreeDocs
  /\ schemaType = treeType
  /\ allTypes = Catalog
  /\ options \in SomeOptions
  /\ pc = "start"
  /\ issues = <<>>
  /\ idx = 1
  /\ visited = <<>>
  /\ calls = 0
  /\ result = NoResult
  /\ memo = NoMemo
  /\ formatted = NoFormat
  /\ operation = NoOperation
  /\ reply = NoReply
  /\ outcome = NoOutcome
  /\ skeletonOptions = NoSkeleton

\* the call is between its first statement and its return
Running == pc \in {"start", "fields", "filter"}

\* the running call executes its next statement: it moves to another
\* statement group or to the next root field
Advance ==
  /\ Running
  /\ pc' \in {"fields", "filter", "done", "threw"}
  /\ idx' \in {1, idx, idx + 1}
  /\ <<pc', idx'>> # <<pc, idx>>

\* validateDocument is synchronous: a call that has started keeps executing
SpecNested == InitNested /\ [][Next]_vars /\ WF_<<pc, idx>>(Advance)

\* ------------------------------------------------------------------------
\* Repeated calls: a caller that calls validateDocument again once a call
\* has returned, with the same or with other arguments
\* ------------------------------------------------------------------------
CurrentInput == Input(document, schemaType, allTypes, options)

RepeatInputs ==
  { Input(d, articleType, Catalog, o) :
      d \in { Obj(<< P("_type", Str("article")), P("title", Str("Hi")),
                     P("slug", Obj(<< P("current", Str("Hi There")) >>)),
                     P("tags", Arr(<< Str("a") >>)) >>),
              Obj(<< P("_type", Str("article")), P("title", Str("H")),
                     P("slug", Str("hi")), P("tags", Arr(<< Num(1) >>)) >>),
              Obj(<< P("_type", Str("page")) >>) },
      o \in { Opts(Undef, Undef, Undef, FALSE), Opts(Undef, Bool(TRUE), Bool(TRUE), TRUE) } }
  \cup { Input(d, pageType, Catalog, Opts(Undef, Bool(TRUE), Undef, TRUE)) :
           d \in { Obj(<< P("_type", Str("page")), P("seo", Obj(<<>>)),
                          P("author", Obj(<< P("_ref", Str("a1")) >>)) >>),
                   Obj(<< P("_type", Str("page")),
                          P("seo", Obj(<< P("metaTitle", Str("Hi")),
                                          P("metaDescription", Str("d")) >>)),
                          P("hero", Obj(<< P("asset", ImageAsset),
                                           P("alt", Str("x")) >>)) >>) } }
  \cup { Input(Obj(<< P("_type", Str("empty")) >>), emptyType, <<>>,
               Opts(Undef, Undef, Undef, FALSE)) }

InitRepeat ==
  /\ \E in \in RepeatInputs :
       /\ document = in.document
       /\ schemaType = in.schemaType
       /\ allTypes = in.allTypes
       /\ options = in.options
  /\ pc = "start"
  /\ issues = <<>>
  /\ idx = 1
  /\ visited = <<>>
  /\ calls = 0
  /\ result = NoResult
  /\ memo = NoMemo
  /\ formatted = NoFormat
  /\ operation = NoOperation
  /\ reply = NoReply
  /\ outcome = NoOutcome
  /\ skeletonOptions = NoSkeleton

\* the caller keeps the first result and calls again: nothing of the
\* previous call is cleared in between
CallAgain ==
  /\ pc = "done"
  /\ \E in \in RepeatInputs :
       /\ document' = in.document
       /\ schemaType' = in.schemaType
       /\ allTypes' = in.allTypes
       /\ options' = in.options
       /\ memo' = IF memo = NoMemo
                  THEN [input |-> CurrentInput, result |-> result,
                        between |-> in # CurrentInput]
                  ELSE [memo EXCEPT !.between = @ \/ in # memo.input]
  /\ pc' = "start"
  /\ UNCHANGED <<clientVars, skeletonOptions>>
  /\ UNCHANGED <<issues, idx, visited, calls, result, formatted>>

NextRepeat == Next \/ CallAgain

SpecRepeat == InitRepeat /\ [][NextRepeat]_vars

\* ------------------------------------------------------------------------
\* Skeleton generation: generateDocumentSkeleton and the validation of the
\* document it returns
\* ------------------------------------------------------------------------
\* the deepest nesting of object skeletons explored; a generation that nests
\* deeper does not end (a type that contains itself)
MaxDepth == 4

\* the outcome of a generation that recurses without end: a RangeError
Overflow == [t |-> "overflow"]

\* typeMap of the options when none is given
NoTypeMap == [given |-> FALSE, types |-> <<>>]

\* a typeMap of the options: new Map(types.map((t) => [t.name, t]))
GivenTypeMap(types) == [given |-> TRUE, types |-> types]

\* skeleton[k] = v
SetKey(obj, k, v) ==
  IF HasKey(obj, k)
  THEN Obj([i \in 1..Len(obj.props) |->
              IF obj.props[i].k = k THEN P(k, v) ELSE obj.props[i]])
  ELSE Obj(Append(obj.props, P(k, v)))

hasValidationRule(field, flag, constraint) ==
  LET rules == getValidationRules(field)
  IN \E i \in 1..Len(rules) :
       /\ rules[i].flag = flag
       /\ constraint = Undef \/ rules[i].constraint = constraint

isFieldRequired(field) == hasValidationRule(field, "presence", Str("required"))

getListOptions(field) == IF IsArray(field.list) THEN field.list ELSE Undef

RECURSIVE getDefaultValueForField(_, _, _, _)
RECURSIVE generateObjectSkeleton(_, _, _, _)

\* the loop over the fields of generateDocumentSkeleton and generateObjectSkeleton
RECURSIVE skeletonFields(_, _, _, _, _, _)
skeletonFields(skeleton, fields, i, typeMap, includeOptional, depth) ==
  IF i > Len(fields) THEN skeleton
  ELSE LET field == fields[i]
           required == isFieldRequired(field)
       IN IF ~required /\ ~includeOptional
          THEN skeletonFields(skeleton, fields, i + 1, typeMap, includeOptional, depth)
          ELSE LET defaultValue ==
                     getDefaultValueForField(field, typeMap, includeOptional, depth)
               IN IF defaultValue = Overflow THEN Overflow
                  ELSE skeletonFields(IF defaultValue # Undef
                                      THEN SetKey(skeleton, field.name, defaultValue)
                                      ELSE skeleton,
                                      fields, i + 1, typeMap, includeOptional, depth)

generateObjectSkeleton(objectType, typeMap, includeOptional, depth) ==
  IF depth = 0 THEN Overflow
  ELSE LET skeleton == IF objectType.name # NoName /\ objectType.name # ""
                          /\ objectType.type # "object"
                       THEN Obj(<< P("_type", Str(objectType.name)) >>)
                       ELSE Obj(<<>>)
       IN IF ~objectType.hasFields THEN skeleton
          ELSE skeletonFields(skeleton, objectType.fields, 1, typeMap, includeOptional,
                              depth - 1)

getDefaultValueForField(field, typeMap, includeOptional, depth) ==
  LET listOptions == getListOptions(field) IN
  IF field.initialValue # Undef THEN field.initialValue
  ELSE IF listOptions # Undef /\ Len(listOptions.items) > 0 /\ Truthy(listOptions.items[1])
  THEN Get(listOptions.items[1], "value")
  ELSE CASE field.type \in {"string", "text", "url", "email"} -> Str("")
         [] field.type = "number" -> Num(0)
         [] field.type = "boolean" -> Bool(FALSE)
         [] field.type \in {"date", "datetime"} -> Undef
         [] field.type = "slug" ->
              Obj(<< P("_type", Str("slug")), P("current", Str("")) >>)
         [] field.type = "array" -> Arr(<<>>)
         [] field.type = "reference" -> Null
         [] field.type = "image" -> Obj(<< P("_type", Str("image")) >>)
         [] field.type = "file" -> Obj(<< P("_type", Str("file")) >>)
         [] field.type = "object" ->
              generateObjectSkeleton(field, typeMap, includeOptional, depth)
         [] field.type = "block" -> Undef
         [] OTHER ->
              IF typeMap.given /\ TypeMapHas(typeMap.types, field.type)
                 /\ TypeMapGet(typeMap.types, field.type).type = "object"
              THEN generateObjectSkeleton(TypeMapGet(typeMap.types, field.type), typeMap,
                                          includeOptional, depth)
              ELSE Undef

generateDocumentSkeleton(type, opts) ==
  LET skeleton == Obj(<< P("_type", Str(type.name)) >>)
      withId == IF Truthy(opts.documentId) THEN SetKey(skeleton, "_id", opts.documentId)
                ELSE skeleton
  IN IF ~type.hasFields THEN withId
     ELSE skeletonFields(withId, type.fields, 1, opts.typeMap, opts.includeOptional,
                         MaxDepth)

\* schemaTypes.find((t) => t.name === typeName), or undefined
FindType(schemaTypes, typeName) ==
  IF \E i \in 1..Len(schemaTypes) : schemaTypes[i].name = typeName
  THEN schemaTypes[CHOOSE i \in 1..Len(schemaTypes) :
                     /\ schemaTypes[i].name = typeName
                     /\ \A j \in 1..(i - 1) : schemaTypes[j].name # typeName]
  ELSE Undef

generateSkeletonByTypeName(typeName, schemaTypes, opts) ==
  LET type == FindType(schemaTypes, typeName)
  IN IF type = Undef THEN Null
     ELSE generateDocumentSkeleton(type, [opts EXCEPT !.typeMap = GivenTypeMap(schemaTypes)])

\* the options of a generation, and whether it goes through
\* generateSkeletonByTypeName with the catalog as schemaTypes
SkeletonOptions ==
  { [includeOptional |-> o, documentId |-> d,
     typeMap |-> IF m THEN GivenTypeMap(Catalog) ELSE NoTypeMap, byTypeName |-> n] :
      o \in BOOLEAN, d \in { Undef, Str("doc-1") }, m \in BOOLEAN, n \in BOOLEAN }

\* the skeleton the caller asks for
generatedSkeleton(type, types, opts) ==
  IF opts.byTypeName THEN generateSkeletonByTypeName(type.name, types, opts)
  ELSE generateDocumentSkeleton(type, opts)

DocumentTypes == { Catalog[i] : i \in { j \in 1..Len(Catalog) : Catalog[j].type = "document" } }

\* a caller is about to generate the skeleton of a document type and to
\* validate it against that type
InitSkeleton ==
  /\ schemaType \in DocumentTypes
  /\ skeletonOptions \in SkeletonOptions
  /\ options \in SomeOptions
  /\ allTypes = Catalog
  /\ document = Undef
  /\ pc = "skeleton"
  /\ issues = <<>>
  /\ idx = 1
  /\ visited = <<>>
  /\ calls = 0
  /\ result = NoResult
  /\ memo = NoMemo
  /\ formatted = NoFormat
  /\ operation = NoOperation
  /\ reply = NoReply
  /\ outcome = NoOutcome

\* generateDocumentSkeleton(schemaType, skeletonOptions), or
\* generateSkeletonByTypeName(schemaType.name, allTypes, skeletonOptions); the
\* skeleton is then handed to validateDocument
GenerateSkeleton ==
  /\ pc = "skeleton"
  /\ LET skeleton == generatedSkeleton(schemaType, allTypes, skeletonOptions)
     IN IF skeleton = Overflow
        THEN pc' = "threw" /\ UNCHANGED document
        ELSE pc' = "start" /\ document' = skeleton
  /\ UNCHANGED <<schemaType, allTypes, options, issues, idx, visited, calls, result, memo,
                 formatted, clientVars, skeletonOptions>>

NextSkeleton == GenerateSkeleton \/ Next

SpecSkeleton == InitSkeleton /\ [][NextSkeleton]_vars

\* ------------------------------------------------------------------------
\* SchemaClient: list, get, deploy and delete over the request of the
\* underlying client
\* ------------------------------------------------------------------------
\* a value the request rejects with: an Error (or a subclass of it), a
\* SchemaClientError, a plain object or a primitive; hasStatus is
\* 'statusCode' in error
Failure(kind, message, hasStatus, statusCode) ==
  [kind |-> kind, message |-> message, hasStatus |-> hasStatus, statusCode |-> statusCode,
   response |-> Undef]

\* new SchemaClientError(message, statusCode, response)
SchemaClientError(message, statusCode, response) ==
  [kind |-> "SchemaClientError", message |-> message, hasStatus |-> TRUE,
   statusCode |-> statusCode, response |-> response]

IsErrorInstance(error) == error.kind \in {"Error", "SchemaClientError"}
IsObjectValue(error) == error.kind \in {"Error", "SchemaClientError", "object"}

\* String(error) of a value that is not an Error
ErrorToString(error) ==
  CASE error.kind = "object" -> "[object Object]"
    [] error.kind = "string" -> error.message
    [] error.kind = "null" -> "null"
    [] error.kind = "undefined" -> "undefined"
    [] OTHER -> error.kind \o ": " \o error.message

isNotFoundError(error) ==
  /\ IsObjectValue(error)
  /\ error.hasStatus
  /\ error.statusCode = Num(404)

\* wrapError that never prefixes the message
wrapError_bareMessage(error, message) ==
  IF error.kind = "SchemaClientError" THEN error
  ELSE SchemaClientError(IF IsErrorInstance(error) THEN error.message
                         ELSE ErrorToString(error),
                         IF IsObjectValue(error) /\ error.hasStatus THEN error.statusCode
                         ELSE Undef,
                         error)

wrapError(error, message) ==
  IF error.kind = "SchemaClientError" THEN error
  ELSE LET statusCode == IF IsObjectValue(error) /\ error.hasStatus
                         THEN error.statusCode ELSE Undef
           errorMessage == IF IsErrorInstance(error) THEN error.message
                           ELSE ErrorToString(error)
       IN SchemaClientError(message \o ": " \o errorMessage, statusCode, error)

\* const schemaId = tag ? `_.schemas.${workspace}.${tag}` : `_.schemas.${workspace}`
schemaId(workspace, tag) ==
  IF Truthy(tag) THEN "_.schemas." \o workspace \o "." \o JsToString(tag)
  ELSE "_.schemas." \o workspace

Returned(value) == [kind |-> "returned", value |-> value]
Thrown(error) == [kind |-> "thrown", error |-> error]
Resolves(value) == [settles |-> "resolved", value |-> value]
Rejects(error) == [settles |-> "rejected", error |-> error]

\* a stored workspace schema, as far as get reads it
StoredSchema(id, workspaceName) == [t |-> "schema", id |-> id, workspace |-> workspaceName]

\* what the request of the underlying client may do
Failures ==
  { Failure("Error", "Network error", FALSE, Undef),
    Failure("Error", "Not found", TRUE, Num(404)),
    Failure("Error", "Unauthorized", TRUE, Num(401)),
    Failure("Error", "Server error", TRUE, Num(500)),
    Failure("Error", "No status", TRUE, Undef),
    Failure("object", "", TRUE, Num(404)),
    Failure("object", "", TRUE, Num(500)),
    Failure("object", "", TRUE, Str("404")),
    Failure("object", "", FALSE, Undef),
    Failure("string", "boom", FALSE, Undef),
    Failure("null", "", FALSE, Undef),
    Failure("undefined", "", FALSE, Undef),
    SchemaClientError("Rate limited", Undef, Undef),
    SchemaClientError("Forbidden", Num(403), Undef),
    SchemaClientError("Gone", Num(404), Undef) }

Responses ==
  { StoredSchema("_.schemas.default", "default"),
    Arr(<<>>),
    Arr(<< StoredSchema("_.schemas.staging", "staging"),
           StoredSchema("_.schemas.default", "default") >>),
    Arr(<< StoredSchema("_.schemas.other", "other") >>) }

Replies == { Resolves(r) : r \in Responses } \cup { Rejects(e) : e \in Failures }

GetOptions ==
  { [workspace |-> w, tag |-> g] : w \in { Undef, Str("staging") },
                                    g \in { Undef, Str("v1") } }

\* a client is constructed; the request of the call to come will resolve or
\* reject with one of the explored replies
InitClient ==
  /\ reply \in Replies
  /\ operation = NoOperation
  /\ outcome = NoOutcome
  /\ skeletonOptions = NoSkeleton
  /\ document = Obj(<<>>)
  /\ schemaType = emptyType
  /\ allTypes = <<>>
  /\ options = Opts(Undef, Undef, Undef, FALSE)
  /\ pc = "idle"
  /\ issues = <<>>
  /\ idx = 1
  /\ visited = <<>>
  /\ calls = 0
  /\ result = NoResult
  /\ memo = NoMemo
  /\ formatted = NoFormat

validatorVars == <<document, schemaType, allTypes, options, pc, issues, idx, visited,
                   calls, result, memo, formatted>>

\* list()
SchemaClientList ==
  /\ outcome = NoOutcome
  /\ operation' = [name |-> "list"]
  /\ outcome' = IF reply.settles = "resolved" THEN Returned(reply.value)
                ELSE Thrown(wrapError(reply.error, "Failed to list schemas"))
  /\ UNCHANGED <<reply, validatorVars, skeletonOptions>>

\* get(options)
SchemaClientGet ==
  /\ outcome = NoOutcome
  /\ \E o \in GetOptions :
       LET workspace == IF o.workspace = Undef THEN "default" ELSE o.workspace.s
           id == schemaId(workspace, o.tag)
       IN /\ operation' = [name |-> "get", options |-> o, schemaId |-> id]
          /\ outcome' =
               IF reply.settles = "resolved"
               THEN LET response == reply.value IN
                    IF response.t = "array"
                    THEN LET hit == { i \in 1..Len(response.items) :
                                        response.items[i].workspace = workspace }
                         IN IF hit # {}
                            THEN Returned(response.items[CHOOSE i \in hit :
                                                           \A j \in hit : i <= j])
                            ELSE IF Len(response.items) > 0
                            THEN Returned(response.items[1])
                            ELSE Returned(Null)
                    ELSE Returned(response)
               ELSE IF isNotFoundError(reply.error) THEN Returned(Null)
               ELSE Thrown(wrapError(reply.error,
                                     "Failed to get schema '" \o id \o "'"))
  /\ UNCHANGED <<reply, validatorVars, skeletonOptions>>

\* deploy(schemas)
SchemaClientDeploy ==
  /\ outcome = NoOutcome
  /\ \E n \in 0..1 :
       operation' = [name |-> "deploy", schemas |-> n]
  /\ outcome' = IF reply.settles = "resolved" THEN Returned(reply.value)
                ELSE Thrown(wrapError(reply.error, "Failed to deploy schemas"))
  /\ UNCHANGED <<reply, validatorVars, skeletonOptions>>

\* delete(schemaIds)
SchemaClientDelete ==
  /\ outcome = NoOutcome
  /\ operation' = [name |-> "delete"]
  /\ outcome' = IF reply.settles = "resolved" THEN Returned(Undef)
                ELSE Thrown(wrapError(reply.error, "Failed to delete schemas"))
  /\ UNCHANGED <<reply, validatorVars, skeletonOptions>>

NextClient == SchemaClientList \/ SchemaClientGet \/ SchemaClientDeploy \/ SchemaClientDelete

SpecClient == InitClient /\ [][NextClient]_vars

\* ------------------------------------------------------------------------
\* Helpers of the properties
\* ------------------------------------------------------------------------
Done == pc = "done"

\* every issue found by the call, whatever the options report
Found(sev) == SelectSeq(issues, LAMBDA i : i.severity = sev)

StartsWith(s, prefix) == Len(s) >= Len(prefix) /\ SubSeq(s, 1, Len(prefix)) = prefix

IssuesAt(path) == SelectSeq(issues, LAMBDA i : i.path = path)

IssuesUnder(path) ==
  SelectSeq(issues, LAMBDA i : StartsWith(i.path, path \o ".") \/ StartsWith(i.path, path \o "["))

Count(seq, x) == Cardinality({ i \in 1..Len(seq) : seq[i] = x })

DeclaresRequired(field) ==
  \E g \in 1..Len(field.validation) : \E r \in 1..Len(field.validation[g].rules) :
    field.validation[g].rules[r] = [flag |-> "presence", constraint |-> Str("required")]

\* the nested fields validated for an object value of a field: those of an
\* object or image/file field, or of the catalog's object type the kind names
NestedFields(field) ==
  IF field.type \in {"object", "image", "file"} THEN field.fields
  ELSE IF /\ field.type \notin {"string", "text", "number", "boolean", "date", "datetime",
                                "array", "reference", "slug", "url", "block"}
          /\ \E t \in 1..Len(allTypes) : allTypes[t].name = field.type
       THEN LET last == CHOOSE t \in 1..Len(allTypes) :
                          /\ allTypes[t].name = field.type
                          /\ \A u \in (t + 1)..Len(allTypes) : allTypes[u].name # field.type
            IN IF allTypes[last].type = "object" THEN allTypes[last].fields ELSE <<>>
       ELSE <<>>

\* the absent (undefined or null) field values reached from a field through
\* nested object values, each with its path, its field and whether it is required
RECURSIVE AbsentUnder(_, _, _)
AbsentUnder(value, field, path) ==
  IF value.t \in {"undefined", "null"}
  THEN { [path |-> path, field |-> field, required |-> DeclaresRequired(field)] }
  ELSE IF value.t = "object"
  THEN UNION { AbsentUnder(Get(value, NestedFields(field)[k].name), NestedFields(field)[k],
                           path \o "." \o NestedFields(field)[k].name) :
               k \in 1..Len(NestedFields(field)) }
  ELSE {}

\* the absent field values reached from the root fields the call validated
AbsentVisited ==
  UNION { AbsentUnder(Get(document, schemaType.fields[i].name), schemaType.fields[i],
                      schemaType.fields[i].name) : i \in 1..Len(visited) }

\* ------------------------------------------------------------------------
\* Properties
\* ------------------------------------------------------------------------

\* C1: in the result of every call that returns, valid is true exactly when no
\* error-severity issue was found (warnings and info found never change it),
\* and result.errors holds every error-severity issue found, in the order
\* found, whatever includeWarnings and includeInfo are.
ValidIffNoErrorFound ==
  Done =>
    /\ result.valid <=> ~\E i \in 1..Len(issues) : issues[i].severity = "error"
    /\ result.errors = Found("error")
    /\ \A i \in 1..Len(result.errors) : result.errors[i].severity = "error"

\* a valid result of a call that found a warning and an info issue, and one
\* that reports them
ValidDespiteWarningAndInfo ==
  /\ Done
  /\ result.valid
  /\ Len(Found("warning")) > 0
  /\ Len(Found("info")) > 0
  /\ Len(result.warnings) > 0
  /\ Len(result.info) > 0

\* C2: validateDocument never throws: no call ends in an exception, whatever
\* the document and the schema.
NeverThrows == pc # "threw"

\* C3: for every document without a _type, the result of a call that returns
\* has an error-severity issue at path "_type" and valid is false.
MissingTypeReported ==
  (Done /\ IsAbsent(Get(document, "_type"))) =>
    /\ ~result.valid
    /\ \E i \in 1..Len(result.errors) :
         result.errors[i].path = "_type" /\ result.errors[i].severity = "error"
    /\ \E i \in 1..Len(result.issues) :
         result.issues[i].path = "_type" /\ result.issues[i].severity = "error"

\* a document without _type whose fields are all fine, validated with
\* warnings excluded: the _type error alone makes it invalid
MissingTypeAlone ==
  /\ Done
  /\ ~HasKey(document, "_type")
  /\ Len(schemaType.fields) > 0
  /\ Len(result.errors) = 1
  /\ ~result.valid


\* C4 as stated: for every document whose _type (a non-empty value) differs
\* from the root type's name, the result has an error at path "_type" that
\* mentions the mismatch, and every root field is still validated.
MismatchReportedAndFieldsRun ==
  (Done /\ Truthy(Get(document, "_type"))
        /\ Get(document, "_type") # Str(schemaType.name)) =>
    /\ \E i \in 1..Len(result.errors) :
         /\ result.errors[i].path = "_type"
         /\ result.errors[i].message =
              "Document type \"" \o JsToString(Get(document, "_type"))
                \o "\" does not match expected type \"" \o schemaType.name \o "\""
    /\ Len(visited) = Len(schemaType.fields)

\* C4 as amended: a truthy _type that differs from the root type's name is
\* reported at "_type" with a message naming both types; a present but falsy
\* _type ("" or 0) is reported at "_type" as missing; every root field is
\* still validated unless stopOnFirstError is set, and then none is.
MismatchReportedFieldsRunUnlessStopped ==
  (Done /\ ~IsAbsent(Get(document, "_type"))
        /\ Get(document, "_type") # Str(schemaType.name)) =>
    /\ Len(result.errors) > 0
    /\ result.errors[1].path = "_type"
    /\ result.errors[1].message =
         IF Truthy(Get(document, "_type"))
         THEN "Document type \"" \o JsToString(Get(document, "_type"))
                \o "\" does not match expected type \"" \o schemaType.name \o "\""
         ELSE "Document is missing required _type field"
    /\ ~result.valid
    /\ IF options.stopOnFirstError = Bool(TRUE)
       THEN visited = <<>>
       ELSE /\ Len(visited) = Len(schemaType.fields)
            /\ \A i \in 1..Len(visited) : visited[i].name = schemaType.fields[i].name

\* a mistyped document whose fields are validated all the same and add an
\* error of their own
MistypedWithFieldError ==
  /\ Done
  /\ Truthy(Get(document, "_type"))
  /\ Get(document, "_type") # Str(schemaType.name)
  /\ Len(visited) = Len(schemaType.fields)
  /\ Len(visited) > 1
  /\ \E i \in 1..Len(result.errors) : result.errors[i].path = "_type"
  /\ \E i \in 1..Len(result.errors) : result.errors[i].path # "_type"

\* C5: for an absent (undefined or null) field value at any nesting level of a
\* validated root field: a required field yields exactly one issue at its
\* path, the presence error, and an optional one yields none; no issue lies
\* under the path of an absent value.
AbsentFieldHandled ==
  Done =>
    \A a \in AbsentVisited :
      /\ Len(IssuesUnder(a.path)) = 0
      /\ IF a.required
         THEN /\ Len(IssuesAt(a.path)) = 1
              /\ IssuesAt(a.path)[1].severity = "error"
              /\ IssuesAt(a.path)[1].rule = [flag |-> "presence", constraint |-> Str("required")]
         ELSE Len(IssuesAt(a.path)) = 0

\* a call that met a required absent value below the root level, an absent
\* required field that declares nested fields, and an absent optional field
\* that declares rules or nested fields
AbsentAtEveryLevel ==
  /\ Done
  /\ \E a \in AbsentVisited :
       a.required /\ StartsWith(a.path, "tree.child.") /\ Len(IssuesAt(a.path)) = 1
  /\ \E a \in AbsentVisited :
       a.required /\ Len(NestedFields(a.field)) > 0 /\ Len(IssuesAt(a.path)) = 1
  /\ \E a \in AbsentVisited :
       ~a.required /\ Len(NestedFields(a.field)) > 0 /\ Len(a.field.validation) = 0
  /\ \E a \in AbsentVisited : ~a.required /\ Len(a.field.validation) > 0


\* C6: the root fields are validated in declaration order; with
\* stopOnFirstError no root field is validated once an error is recorded and
\* only a recorded error ends the loop early (warnings do not); the root field
\* in which the first error occurs is validated to completion, nested fields
\* included; without stopOnFirstError every declared root field is validated.
RootFieldsInOrderUntilFirstError ==
  /\ Len(visited) <= Len(schemaType.fields)
  /\ \A i \in 1..Len(visited) : visited[i].name = schemaType.fields[i].name
  /\ options.stopOnFirstError = Bool(TRUE) =>
       \A i \in 1..Len(visited) : ~visited[i].errorBefore
  /\ (pc \in {"filter", "done"} /\ Len(visited) < Len(schemaType.fields)) =>
       /\ options.stopOnFirstError = Bool(TRUE)
       /\ \E i \in 1..Len(issues) : issues[i].severity = "error"
  /\ (Done /\ options.stopOnFirstError # Bool(TRUE)) =>
       Len(visited) = Len(schemaType.fields)
  /\ Done =>
       \A a \in AbsentVisited : a.required => Len(IssuesAt(a.path)) = 1

\* a call with stopOnFirstError that went past a root field with a warning,
\* recorded two errors inside the next root field and validated no field after
StoppedAfterNestedErrors ==
  /\ Done
  /\ options.stopOnFirstError = Bool(TRUE)
  /\ Len(visited) = 2
  /\ Len(visited) < Len(schemaType.fields)
  /\ Len(Found("error")) >= 2
  /\ \E i \in 1..Len(issues) :
       issues[i].severity = "warning" /\ StartsWith(issues[i].path, visited[1].name)
  /\ \A i \in 1..Len(issues) :
       issues[i].severity = "error" => StartsWith(issues[i].path, visited[2].name)

\* C7: includeWarnings defaults to true and includeInfo to false:
\* result.warnings is empty when includeWarnings is false and otherwise holds
\* every warning found, result.info is empty unless includeInfo is true and
\* then holds every info issue found, and result.issues holds exactly the
\* issues of result.errors, result.warnings and result.info.
SeverityListsFollowOptions ==
  Done =>
    /\ result.warnings = IF options.includeWarnings = Bool(FALSE) THEN <<>>
                         ELSE Found("warning")
    /\ result.info = IF options.includeInfo = Bool(TRUE) THEN Found("info") ELSE <<>>
    /\ Len(result.issues) = Len(result.errors) + Len(result.warnings) + Len(result.info)
    /\ \A i \in 1..Len(result.issues) :
         Count(result.issues, result.issues[i])
           = Count(result.errors \o result.warnings \o result.info, result.issues[i])
    /\ \A i \in 1..Len(issues) :
         Count(result.issues, issues[i])
           = Count(result.errors \o result.warnings \o result.info, issues[i])

\* a call without options that found an error, a warning and an info issue:
\* the warning is reported, the info issue is not
DefaultsReportWarningsNotInfo ==
  /\ Done
  /\ options.includeWarnings = Undef
  /\ options.includeInfo = Undef
  /\ Len(Found("error")) > 0
  /\ Len(Found("warning")) > 0
  /\ Len(Found("info")) > 0
  /\ Len(result.warnings) > 0
  /\ result.info = <<>>

\* C8: without errors the summary is "Document is valid", followed by the
\* warning count only when a warning is reported; with errors it is
\* "Validation failed: " and the number of errors, then the numbers of
\* reported warnings and of reported info issues, each only when non-zero;
\* every count is the length of the matching list of the result.
SummaryMatchesLists ==
  Done =>
    LET e == Len(result.errors)
        w == Len(result.warnings)
        k == Len(result.info)
        plural(n) == IF n = 1 THEN "" ELSE "s"
        warningText == ToString(w) \o " warning" \o plural(w)
    IN /\ StartsWith(result.summary, "Document is valid") <=> e = 0
       /\ StartsWith(result.summary, "Validation failed: ") <=> e > 0
       /\ e = 0 /\ w = 0 => result.summary = "Document is valid"
       /\ e = 0 /\ w > 0 => result.summary = "Document is valid (" \o warningText \o ")"
       /\ e > 0 =>
            result.summary =
              "Validation failed: " \o ToString(e) \o " error" \o plural(e)
                \o (IF w > 0 THEN ", " \o warningText ELSE "")
                \o (IF k > 0 THEN ", " \o ToString(k) \o " info" ELSE "")

\* a failed result whose summary counts errors and info but no warning,
\* although a warning was found: the warnings are not reported
FailedSummaryWithoutWarnings ==
  /\ Done
  /\ Len(result.errors) > 1
  /\ Len(Found("warning")) > 0
  /\ result.warnings = <<>>
  /\ Len(result.info) > 0

\* C9: two calls with the same document, root type, type catalog and options
\* return identical results, whatever calls were made in between.
SameInputSameResult ==
  (Done /\ memo # NoMemo /\ memo.input = CurrentInput) => result = memo.result

\* the first call repeated after a call with other arguments, with a result
\* that holds issues
RepeatedAfterOtherCall ==
  /\ Done
  /\ memo # NoMemo
  /\ memo.input = CurrentInput
  /\ memo.between
  /\ Len(result.issues) > 1
  /\ result = memo.result

\* C10: the resolveReference callback of the options is never invoked.
ResolveReferenceNeverCalled == calls = 0

\* a returned call that was given a callback and validated a reference with a
\* document id
ReferenceValidatedWithCallback ==
  /\ Done
  /\ options.resolveReference
  /\ \E i \in 1..Len(visited) :
       /\ schemaType.fields[i].type = "reference"
       /\ Truthy(Get(Get(document, schemaType.fields[i].name), "_ref"))
  /\ calls = 0


\* the present field values reached from a field through nested object
\* values, each with its path and its field
RECURSIVE PresentUnder(_, _, _)
PresentUnder(value, field, path) ==
  IF value.t \in {"undefined", "null"} THEN {}
  ELSE { [path |-> path, field |-> field, value |-> value] }
       \cup (IF value.t = "object"
             THEN UNION { PresentUnder(Get(value, NestedFields(field)[k].name),
                                       NestedFields(field)[k],
                                       path \o "." \o NestedFields(field)[k].name) :
                          k \in 1..Len(NestedFields(field)) }
             ELSE {})

\* the present field values reached from the root fields the call validated
PresentVisited ==
  UNION { PresentUnder(Get(document, schemaType.fields[i].name), schemaType.fields[i],
                       schemaType.fields[i].name) : i \in 1..Len(visited) }

\* the rules a field declares, over all its validation groups
DeclaredRules(field) ==
  UNION { { field.validation[g].rules[r] : r \in 1..Len(field.validation[g].rules) } :
          g \in 1..Len(field.validation) }

\* twice the quantity a min or max rule measures: the length of a string or
\* of an array, the value of a number; -1 when the value has none
MeasuredHalves(value) ==
  CASE value.t = "string" -> 2 * Len(value.s)
    [] value.t = "array" -> 2 * Len(value.items)
    [] value.t = "number" /\ ~value.nan -> value.h
    [] OTHER -> 0 - 1

HasMeasure(value) ==
  value.t \in {"string", "array"} \/ (value.t = "number" /\ ~value.nan)

Plural(n) == IF n = 1 THEN "" ELSE "s"

\* the message of a violated min or max rule of whole bound b on a value
BoundMessage(flag, value, b) ==
  LET bound == ToString(b)
      current == ToString(MeasuredHalves(value) \div 2)
  IN CASE flag = "min" /\ value.t = "string" ->
            "Must be at least " \o bound \o " characters"
       [] flag = "min" /\ value.t = "number" -> "Must be at least " \o bound
       [] flag = "min" /\ value.t = "array" ->
            "Must have at least " \o bound \o " item" \o Plural(b)
       [] flag = "max" /\ value.t = "string" ->
            "Must be at most " \o bound \o " characters (currently " \o current \o ")"
       [] flag = "max" /\ value.t = "number" -> "Must be at most " \o bound
       [] flag = "max" /\ value.t = "array" ->
            "Must have at most " \o bound \o " item" \o Plural(b)
              \o " (currently " \o current \o ")"

\* the suggestion of a violated min or max rule of whole bound b on a string
BoundSuggestion(flag, value, b) ==
  LET d == IF flag = "min" THEN b - Len(value.s) ELSE Len(value.s) - b
  IN IF flag = "min" THEN "Add " \o ToString(d) \o " more character" \o Plural(d)
     ELSE "Remove " \o ToString(d) \o " character" \o Plural(d)

\* C11: for a present field value and a min (max) rule of numeric bound B, a
\* string shorter (longer) than B, a number below (above) B or an array with
\* fewer (more) than B items yields exactly one error of that rule at the
\* field's path, whose message names B and, for a string, whose suggestion
\* gives the number of characters to add (remove); a value at the bound or on
\* its right side yields no issue of that rule.
BoundRulesExact ==
  Done =>
    \A pv \in PresentVisited : \A rule \in DeclaredRules(pv.field) :
      (rule.flag \in {"min", "max"} /\ rule.constraint.t = "number"
         /\ ~rule.constraint.nan /\ rule.constraint.h % 2 = 0) =>
        LET b == rule.constraint.h \div 2
            m == MeasuredHalves(pv.value)
            broken == /\ HasMeasure(pv.value)
                      /\ IF rule.flag = "min" THEN m < 2 * b ELSE m > 2 * b
            raised == SelectSeq(issues, LAMBDA i : i.path = pv.path /\ i.rule = rule)
        IN IF broken
           THEN /\ Len(raised) = 1
                /\ raised[1].severity = "error"
                /\ raised[1].message = BoundMessage(rule.flag, pv.value, b)
                /\ pv.value.t = "string" =>
                     raised[1].suggestions = << BoundSuggestion(rule.flag, pv.value, b) >>
           ELSE raised = <<>>

\* an article whose title is six characters too long and whose tags array is
\* empty
TooLongTitleAndTooFewTags ==
  /\ Done
  /\ \E i \in 1..Len(result.errors) :
       /\ result.errors[i].path = "title"
       /\ result.errors[i].message = "Must be at most 5 characters (currently 11)"
       /\ result.errors[i].suggestions = << "Remove 6 characters" >>
  /\ \E i \in 1..Len(result.errors) :
       /\ result.errors[i].path = "tags"
       /\ result.errors[i].message = "Must have at least 1 item"


\* the allowed values of an option list whose entries are strings or
\* { title, value } objects, in list order
AllowedValues(list) ==
  [i \in 1..Len(list.items) |->
     IF list.items[i].t = "string" THEN list.items[i].s
     ELSE Get(list.items[i], "value").s]

WellFormedList(list) ==
  /\ list.t = "array"
  /\ \A i \in 1..Len(list.items) :
       \/ list.items[i].t = "string"
       \/ list.items[i].t = "object" /\ Get(list.items[i], "value").t = "string"

\* C12: a string or text field with a list of allowed values that holds a
\* string outside the list yields exactly one option error at the field's
\* path, with one suggestion per allowed value in list order; a string inside
\* the list yields no option error.
OptionListEnforced ==
  Done =>
    \A pv \in PresentVisited :
      (pv.field.type \in {"string", "text"} /\ WellFormedList(pv.field.list)
         /\ pv.value.t = "string") =>
        LET allowed == AllowedValues(pv.field.list)
            raised == SelectSeq(issues, LAMBDA i :
                        /\ i.path = pv.path
                        /\ i.message = "\"" \o pv.value.s \o "\" is not a valid option")
        IN IF \E k \in 1..Len(allowed) : allowed[k] = pv.value.s
           THEN raised = <<>>
           ELSE /\ Len(raised) = 1
                /\ raised[1].severity = "error"
                /\ raised[1].suggestions =
                     [k \in 1..Len(allowed) |-> "Use \"" \o allowed[k] \o "\""]

\* a product whose status is outside its two allowed values, one of them
\* declared as a { title, value } entry
StatusOutsideOptions ==
  /\ Done
  /\ Get(document, "status") = Str("archived")
  /\ \E i \in 1..Len(result.errors) :
       /\ result.errors[i].path = "status"
       /\ result.errors[i].suggestions = << "Use \"draft\"", "Use \"published\"" >>


\* the lowercased runs of letters and digits of a string, in order
RECURSIVE SlugWords(_, _)
SlugWords(s, word) ==
  IF Len(s) = 0 THEN (IF word = "" THEN <<>> ELSE << word >>)
  ELSE LET ch == LowerOf(SubSeq(s, 1, 1))
           rest == SubSeq(s, 2, Len(s))
       IN IF ch \in LowerChars \cup DigitChars
          THEN SlugWords(rest, word \o ch)
          ELSE (IF word = "" THEN <<>> ELSE << word >>) \o SlugWords(rest, "")

\* the runs joined by single hyphens
RECURSIVE HyphenJoin(_)
HyphenJoin(words) ==
  IF Len(words) = 0 THEN ""
  ELSE IF Len(words) = 1 THEN words[1]
  ELSE words[1] \o "-" \o HyphenJoin(Tail(words))

HasUpperOrSpace(s) == \E i \in 1..Len(s) : SubSeq(s, i, i) \in UpperChars \cup {" "}

SlugFields == { pv \in PresentVisited : pv.field.type = "slug" }

\* C13: a slug whose current is a non-empty string with uppercase letters or
\* spaces yields exactly one issue at path.current, a warning whose first
\* suggestion is the lowercased, hyphen-joined slug, and no error at the
\* field; a slug value that is not an object, or whose current is missing,
\* empty or not a string, yields an error (at the path, or at path.current).
SlugWarnsOnFormat ==
  Done =>
    \A pv \in SlugFields :
      LET current == Get(pv.value, "current")
          atCurrent == IssuesAt(pv.path \o ".current")
      IN /\ (pv.value.t = "object" /\ current.t = "string" /\ current.s # ""
               /\ HasUpperOrSpace(current.s)) =>
             /\ Len(atCurrent) = 1
             /\ atCurrent[1].severity = "warning"
             /\ Len(atCurrent[1].suggestions) > 0
             /\ atCurrent[1].suggestions[1] =
                  "Use: \"" \o HyphenJoin(SlugWords(current.s, "")) \o "\""
             /\ \A i \in 1..Len(IssuesAt(pv.path)) : IssuesAt(pv.path)[i].severity # "error"
         /\ pv.value.t \notin {"object", "array"} =>
             \E i \in 1..Len(IssuesAt(pv.path)) :
               /\ IssuesAt(pv.path)[i].severity = "error"
               /\ IssuesAt(pv.path)[i].message = "Expected slug object, got " \o pv.value.t
         /\ (pv.value.t = "object" /\ (current.t # "string" \/ current.s = "")) =>
             /\ Len(atCurrent) = 1
             /\ atCurrent[1].severity = "error"

\* a post whose only finding is the warning on the slug " Hi--There ": the
\* document is valid and the suggestion is "hi-there"
ValidWithSlugWarning ==
  /\ Done
  /\ Get(document, "slug") = Obj(<< P("current", Str(" Hi--There ")) >>)
  /\ result.valid
  /\ Len(result.warnings) = 1
  /\ result.warnings[1].path = "slug.current"
  /\ result.warnings[1].suggestions = << "Use: \"hi-there\"" >>


ReferenceFields == { pv \in PresentVisited : pv.field.type = "reference" }

\* C14: a reference field given a present value that is not an object yields
\* an error at the field's path demanding a reference object and no issue at
\* path._ref; given an object whose _ref is missing, empty or not a string it
\* yields exactly one error at path._ref and no demand for a reference
\* object; given an object with a non-empty string _ref it yields no issue at
\* path._ref.
ReferenceShapeReported ==
  Done =>
    \A pv \in ReferenceFields :
      LET ref == Get(pv.value, "_ref")
          atRef == IssuesAt(pv.path \o "._ref")
          demands == SelectSeq(IssuesAt(pv.path), LAMBDA i :
                       /\ i.severity = "error"
                       /\ StartsWith(i.message, "Expected reference object, got "))
      IN IF pv.value.t \notin {"object", "array"}
         THEN /\ Len(demands) = 1
              /\ demands[1].expected = Str("reference object with _ref")
              /\ atRef = <<>>
         ELSE /\ demands = <<>>
              /\ IF ref.t = "string" /\ ref.s # ""
                 THEN atRef = <<>>
                 ELSE /\ Len(atRef) = 1
                      /\ atRef[1].severity = "error"
                      /\ atRef[1].message = "Reference is missing _ref property"

\* a page whose author is a reference object without _ref, and which is
\* invalid for that reason alone
ReferenceWithoutRef ==
  /\ Done
  /\ Get(document, "author") = Obj(<< P("_type", Str("reference")) >>)
  /\ Len(result.errors) = 1
  /\ result.errors[1].path = "author._ref"


AssetFields ==
  { pv \in PresentVisited : pv.field.type \in {"image", "file"} /\ pv.field.hasFields }

\* the issues found at the nested fields of a field: those under its path,
\* the asset's own apart
NestedIssues(path) ==
  SelectSeq(IssuesUnder(path), LAMBDA i : ~StartsWith(i.path, path \o ".asset"))

\* C15: for an image or file field that declares nested fields and holds an
\* object, the nested fields yield, at path.<name>, the issues they yield
\* under an object field with the same fields, whatever the state of the
\* asset; in particular an absent required nested field yields exactly one
\* error at path.<name>, also for an array value.
AssetNestedFieldsValidated ==
  Done =>
    \A pv \in AssetFields :
      /\ pv.value.t = "object" =>
           NestedIssues(pv.path) =
             SelectSeq(validateObject(pv.value, pv.field, pv.path, allTypes, options,
                                      FieldContext(pv.field)),
                       LAMBDA i : i.severity \notin {"call", "throw"})
      /\ pv.value.t \in {"object", "array"} =>
           \A k \in 1..Len(pv.field.fields) :
             LET f == pv.field.fields[k]
                 at == IssuesAt(pv.path \o "." \o f.name)
             IN (DeclaresRequired(f) /\ IsAbsent(Get(pv.value, f.name))) =>
                  /\ Len(at) = 1
                  /\ at[1].severity = "error"
                  /\ at[1].rule = [flag |-> "presence", constraint |-> Str("required")]

\* a cover whose asset is well-formed and whose required alt text is absent,
\* next to an attachment whose asset is malformed and whose label is absent
AltMissingUnderGoodAndBadAsset ==
  /\ Done
  /\ Get(document, "cover") = Obj(<< P("asset", ImageAsset) >>)
  /\ Get(document, "attachment") = Obj(<< P("asset", Obj(<<>>)) >>)
  /\ IssuesUnder("cover.asset") = <<>>
  /\ Len(IssuesAt("cover.alt")) = 1
  /\ IssuesAt("cover.alt")[1].message = "Alt text is required"
  /\ Len(IssuesAt("attachment.asset._ref")) = 1
  /\ Len(IssuesAt("attachment.label")) = 1
  /\ Len(result.errors) = 3


\* the positions of the custom rules a field declares
CustomRules(field) ==
  UNION { { <<g, r>> : r \in { q \in 1..Len(field.validation[g].rules) :
                                 field.validation[g].rules[q].flag = "custom" } } :
          g \in 1..Len(field.validation) }

IsCustomNote(i) ==
  \/ i.message = "Has custom validation that cannot be evaluated"
  \/ (i.rule # Undef /\ i.rule.flag = "custom")

\* C16: for a present field value, every custom rule of the field yields
\* exactly one issue at the field's path, of severity info and carrying the
\* rule, whatever the value is; the result lists these issues under info and
\* issues exactly when includeInfo is true, and never under errors or
\* warnings.
CustomRulesOnlyInform ==
  Done =>
    /\ \A pv \in PresentVisited :
         LET notes == SelectSeq(IssuesAt(pv.path), IsCustomNote)
         IN /\ Len(notes) = Cardinality(CustomRules(pv.field))
            /\ \A k \in 1..Len(notes) :
                 /\ notes[k].severity = "info"
                 /\ notes[k].message = "Has custom validation that cannot be evaluated"
            /\ \A p \in CustomRules(pv.field) :
                 Len(SelectSeq(notes, LAMBDA i :
                       i.rule = pv.field.validation[p[1]].rules[p[2]])) >= 1
    /\ SelectSeq(result.errors, IsCustomNote) = <<>>
    /\ SelectSeq(result.warnings, IsCustomNote) = <<>>
    /\ SelectSeq(result.info, IsCustomNote) =
         (IF options.includeInfo = Bool(TRUE) THEN SelectSeq(issues, IsCustomNote) ELSE <<>>)
    /\ SelectSeq(result.issues, IsCustomNote) = SelectSeq(result.info, IsCustomNote)

\* a product with a price of the wrong type and a status, each with a custom
\* rule: two info issues found, none reported by default, the only error the
\* price's
CustomRulesNotedNotReported ==
  /\ Done
  /\ options.includeInfo = Undef
  /\ Get(document, "price") = Str("3")
  /\ Get(document, "status") = Str("draft")
  /\ Len(SelectSeq(issues, IsCustomNote)) = 2
  /\ result.info = <<>>
  /\ Len(result.issues) = 1


\* the lines of a text: the pieces between its line feeds
SplitLines(text) ==
  LET feeds == { i \in 1..Len(text) : SubSeq(text, i, i) = "\n" }
      ends == feeds \cup { Len(text) + 1 }
      end(k) == CHOOSE e \in ends : Cardinality({ x \in ends : x < e }) = k - 1
      start(k) == IF k = 1 THEN 1 ELSE end(k - 1) + 1
  IN [k \in 1..Cardinality(ends) |-> SubSeq(text, start(k), end(k) - 1)]

Reported == pc = "formatted" /\ formatted.kind = "issues"

Glyph(severity) ==
  CASE severity = "error" -> "X" [] severity = "warning" -> "!" [] severity = "info" -> "i"

\* the lines of the report after its heading: per issue of result.issues, in
\* order, the line "<glyph> <path>: <message>" and, when the issue has a
\* suggestion, the indented line of its first suggestion
RECURSIVE IssueLinesOf(_)
IssueLinesOf(list) ==
  IF Len(list) = 0 THEN <<>>
  ELSE << Glyph(list[1].severity) \o " " \o list[1].path \o ": " \o list[1].message >>
       \o (IF list[1].suggestions # <<>>
           THEN << "  -> " \o Head(list[1].suggestions) >> ELSE <<>>)
       \o IssueLinesOf(Tail(list))

\* C17 as stated: the report is the summary line followed directly by the
\* lines of the issues.
ReportIsSummaryThenIssues ==
  Reported => SplitLines(formatted.text) = << result.summary >> \o IssueLinesOf(result.issues)

\* C17 as amended: the first line of the report is result.summary, the second
\* line is empty, and the lines of the issues follow: one line
\* "<glyph> <path>: <message>" per issue of result.issues, in order, each
\* followed by one indented line with its first suggestion exactly when it
\* has a suggestion.
ReportIsSummaryBlankThenIssues ==
  Reported =>
    SplitLines(formatted.text) = << result.summary, "" >> \o IssueLinesOf(result.issues)

\* the report of a product with an error that has two suggestions, a warning
\* or info issue, and an issue without suggestion
ReportWithAndWithoutSuggestions ==
  /\ Reported
  /\ \E k \in 1..Len(result.issues) : Len(result.issues[k].suggestions) > 1
  /\ \E k \in 1..Len(result.issues) : result.issues[k].suggestions = <<>>
  /\ \E k \in 1..Len(result.issues) : result.issues[k].severity # "error"
  /\ Len(SplitLines(formatted.text)) > Len(result.issues) + 2


ForAgent == pc = "formatted" /\ formatted.kind = "agent"

\* the error-severity issues the call found, in the order found
ErrorsFound == Found("error")

\* C18: formatValidationForAgent returns the valid and the summary of the
\* result unchanged, errorCount equal to the number of error-severity issues,
\* and errors with one entry per error-severity issue, in order, holding its
\* path, message, expected and first suggestion only (none when it has no
\* suggestion); no warning or info issue appears in it, and valid is false
\* exactly when errorCount > 0.
AgentFormatHoldsErrorsOnly ==
  ForAgent =>
    LET a == formatted.value IN
    /\ a.valid = result.valid
    /\ a.summary = result.summary
    /\ a.errorCount = Len(ErrorsFound)
    /\ Len(a.errors) = Len(ErrorsFound)
    /\ \A k \in 1..Len(a.errors) :
         /\ DOMAIN a.errors[k] = {"path", "message", "expected", "suggestion"}
         /\ a.errors[k].path = ErrorsFound[k].path
         /\ a.errors[k].message = ErrorsFound[k].message
         /\ a.errors[k].expected = ErrorsFound[k].expected
         /\ a.errors[k].suggestion =
              (IF ErrorsFound[k].suggestions = <<>> THEN Undef
               ELSE Str(Head(ErrorsFound[k].suggestions)))
    /\ a.valid <=> ~(a.errorCount > 0)

\* the agent format of a result that reports warnings or info next to an
\* error with two suggestions and an error without any
AgentFormatDropsWarnings ==
  /\ ForAgent
  /\ Len(result.issues) > Len(result.errors)
  /\ \E k \in 1..Len(result.errors) : Len(result.errors[k].suggestions) > 1
  /\ \E k \in 1..Len(formatted.value.errors) : formatted.value.errors[k].suggestion = Undef
  /\ formatted.value.errorCount = Len(formatted.value.errors)
  /\ ~formatted.value.valid


\* the request of the operation that ended was rejected
RequestFailed == outcome # NoOutcome /\ reply.settles = "rejected"

\* the status code a failure carries, if any
StatusOf(error) ==
  IF error.kind \in {"Error", "SchemaClientError", "object"} /\ error.hasStatus
  THEN error.statusCode ELSE Undef

\* the words a wrapped failure of the operation starts with
FailedPrefix ==
  CASE operation.name = "list" -> "Failed to list schemas: "
    [] operation.name = "get" -> "Failed to get schema '" \o operation.schemaId \o "': "
    [] operation.name = "deploy" -> "Failed to deploy schemas: "
    [] operation.name = "delete" -> "Failed to delete schemas: "

\* C19 as stated: get returns null when the request fails with status code
\* 404; every other failed request of get, list, deploy or delete is thrown
\* as a SchemaClientError whose message starts with the failed operation and
\* which keeps the status code of the failure.
FailuresWrappedWithOperation ==
  RequestFailed =>
    IF operation.name = "get" /\ StatusOf(reply.error) = Num(404)
    THEN outcome = [kind |-> "returned", value |-> Null]
    ELSE /\ outcome.kind = "thrown"
         /\ outcome.error.kind = "SchemaClientError"
         /\ StartsWith(outcome.error.message, FailedPrefix)
         /\ outcome.error.statusCode = StatusOf(reply.error)

\* C19 as amended: get returns null when the request fails with status code
\* 404; every other failed request of get, list, deploy or delete is thrown
\* as a SchemaClientError that keeps the status code of the failure; its
\* message is the operation's prefix followed by the failure's message,
\* unless the failure already is a SchemaClientError, which is thrown
\* unchanged.
FailuresWrappedUnlessSchemaClientError ==
  RequestFailed =>
    IF operation.name = "get" /\ StatusOf(reply.error) = Num(404)
    THEN outcome = [kind |-> "returned", value |-> Null]
    ELSE /\ outcome.kind = "thrown"
         /\ outcome.error.kind = "SchemaClientError"
         /\ outcome.error.statusCode = StatusOf(reply.error)
         /\ IF reply.error.kind = "SchemaClientError"
            THEN outcome.error = reply.error
            ELSE /\ StartsWith(outcome.error.message, FailedPrefix)
                 /\ reply.error.kind = "Error" =>
                      outcome.error.message = FailedPrefix \o reply.error.message

\* a list whose request failed with a 404 Error: thrown, with the prefix and
\* the status code kept
ListFailedWithNotFound ==
  /\ RequestFailed
  /\ operation.name = "list"
  /\ reply.error.kind = "Error"
  /\ reply.error.statusCode = Num(404)
  /\ outcome.kind = "thrown"
  /\ outcome.error.message = "Failed to list schemas: Not found"
  /\ outcome.error.statusCode = Num(404)


\* ------------------------------------------------------------------------
\* C20
\* ------------------------------------------------------------------------
EndsWith(s, suffix) ==
  Len(s) >= Len(suffix) /\ SubSeq(s, Len(s) - Len(suffix) + 1, Len(s)) = suffix

\* the document under validation came out of generateDocumentSkeleton
FromSkeleton == skeletonOptions # NoSkeleton /\ pc # "skeleton"

\* the fields of the root type that carry a presence rule of "required"
RequiredRootFields ==
  { i \in 1..Len(schemaType.fields) :
      \E r \in DeclaredRules(schemaType.fields[i]) :
        r.flag = "presence" /\ r.constraint = Str("required") }

\* an error that reports a missing _type, a value of the wrong type or a
\* missing required field
IsSkeletonError(issue) ==
  /\ issue.severity = "error"
  /\ \/ issue.path = "_type"
     \/ StartsWith(issue.message, "Expected ")
     \/ EndsWith(issue.message, " is required")

\* C20: generateDocumentSkeleton(schemaType) returns a document whose _type
\* is schemaType.name, which has a value under every required field of
\* schemaType and, without includeOptional, under no optional field, and
\* whose validation against schemaType reports no missing-_type,
\* type-mismatch or missing-required error.
SkeletonPassesRequiredChecks ==
  FromSkeleton =>
    /\ pc # "threw"
    /\ Get(document, "_type") = Str(schemaType.name)
    /\ \A i \in 1..Len(schemaType.fields) :
         IF i \in RequiredRootFields
         THEN HasKey(document, schemaType.fields[i].name)
         ELSE skeletonOptions.includeOptional
              \/ ~HasKey(document, schemaType.fields[i].name)
    /\ Done => \A k \in 1..Len(result.issues) : ~IsSkeletonError(result.issues[k])


\* ------------------------------------------------------------------------
\* C21
\* ------------------------------------------------------------------------
\* the image and file fields the call validated against an object value
AssetValues ==
  { pv \in PresentVisited : pv.field.type \in {"image", "file"} /\ IsObjectLike(pv.value) }

\* the errors reported about the asset of the image or file at a path
AssetErrors(path) ==
  SelectSeq(IssuesAt(path \o ".asset") \o IssuesAt(path \o ".asset._ref"),
            LAMBDA i : i.severity = "error")

\* C21: for an image or file field whose value is an object, a missing asset
\* yields an error at path.asset; a present asset that is an object with a
\* non-empty string _ref yields no error about the asset; every other
\* present asset, a string or a number included, yields an error.
AssetShapeReported ==
  Done =>
    \A pv \in AssetValues :
      LET asset == Get(pv.value, "asset")
          ref == Get(asset, "_ref")
      IN IF IsAbsent(asset)
         THEN \E k \in 1..Len(IssuesAt(pv.path \o ".asset")) :
                IssuesAt(pv.path \o ".asset")[k].severity = "error"
         ELSE IF IsObjectLike(asset) /\ ref.t = "string" /\ ref.s # ""
         THEN AssetErrors(pv.path) = <<>>
         ELSE AssetErrors(pv.path) # <<>>


\* ------------------------------------------------------------------------
\* C22
\* ------------------------------------------------------------------------
PrimitiveKinds == { "string", "number", "boolean" }

\* the array fields the call validated against an array value
ArrayValues == { pv \in PresentVisited : pv.field.type = "array" /\ pv.value.t = "array" }

\* the primitive type errors reported for the element at a path
PrimitiveTypeErrors(itemPath) ==
  SelectSeq(IssuesAt(itemPath),
            LAMBDA i : i.severity = "error" /\ StartsWith(i.message, "Expected "))

\* C22: an array element that is a bare primitive is type-checked only when
\* the array declares exactly one member kind and that kind is primitive,
\* and is then reported exactly when its runtime type differs from the kind;
\* with several member kinds, or for an element that is an object, no
\* primitive type error is reported for the element.
PrimitiveItemsCheckedAgainstSingleKind ==
  Done =>
    \A pv \in ArrayValues : \A n \in 1..Len(pv.value.items) :
      LET item == pv.value.items[n]
          of == pv.field.of
          found == PrimitiveTypeErrors(pv.path \o "[" \o ToString(n - 1) \o "]")
      IN /\ (item.t \in PrimitiveKinds /\ Len(of) = 1 /\ of[1].type \in PrimitiveKinds) =>
              (found # <<>>) = (item.t # of[1].type)
         /\ (item.t \in PrimitiveKinds /\ Len(of) = 1 /\ of[1].type \notin PrimitiveKinds) =>
              found = <<>>
         /\ (Len(of) > 1 /\ item.t \in PrimitiveKinds \cup {"object"}) => found = <<>>
         /\ item.t = "object" => found = <<>>


\* ------------------------------------------------------------------------
\* C23
\* ------------------------------------------------------------------------
ItemPath(path, n) == path \o "[" \o ToString(n - 1) \o "]"

MissingKeyIssues(itemPath) ==
  SelectSeq(IssuesAt(itemPath), LAMBDA i : i.message = "Array item is missing _key property")

\* the member type of an array matched by the _type of an item: the first
\* whose kind or name equals it
MatchingMembers(of, itemType) ==
  { k \in 1..Len(of) : Str(of[k].type) = itemType \/ JsName(of[k]) = itemType }

\* the fields validated for an item of a matching member type: those of the
\* catalog's type named by the item's _type, else those the member declares
MemberFields(of, itemType) ==
  LET first == CHOOSE k \in MatchingMembers(of, itemType) :
                 \A j \in MatchingMembers(of, itemType) : k <= j
      named == { t \in 1..Len(allTypes) : Str(allTypes[t].name) = itemType }
      last == CHOOSE t \in named : \A u \in named : u <= t
  IN IF named # {} THEN allTypes[last].fields ELSE of[first].fields

\* C23: for every object element of an array field, a missing _key yields one
\* warning, and never an error, at the element's path; an element whose
\* _type matches no declared member type by kind or by name yields one error
\* at elementPath._type with one suggestion per allowed kind; an element
\* whose _type matches has the fields of that member type validated at
\* elementPath.fieldName.
ArrayItemsKeyedAndTyped ==
  Done =>
    /\ \A k \in 1..Len(issues) :
         issues[k].message = "Array item is missing _key property" =>
           issues[k].severity = "warning"
    /\ \A pv \in ArrayValues : \A n \in 1..Len(pv.value.items) :
         LET item == pv.value.items[n]
             of == pv.field.of
             itemType == Get(item, "_type")
             atType == IssuesAt(ItemPath(pv.path, n) \o "._type")
         IN /\ Len(MissingKeyIssues(ItemPath(pv.path, n))) =
                 (IF IsObjectLike(item) /\ ~HasKey(item, "_key") THEN 1 ELSE 0)
            /\ (item.t = "object" /\ HasKey(item, "_type")) =>
                 IF MatchingMembers(of, itemType) = {}
                 THEN /\ Len(atType) = 1
                      /\ atType[1].severity = "error"
                      /\ atType[1].suggestions =
                           [k \in 1..Len(of) |-> "Change _type to \"" \o of[k].type \o "\""]
                      /\ IssuesUnder(ItemPath(pv.path, n)) = atType
                 ELSE /\ atType = <<>>
                      /\ IssuesUnder(ItemPath(pv.path, n)) =
                           SelectSeq(validateFieldsOf(item, MemberFields(of, itemType), 1,
                                                      ItemPath(pv.path, n), allTypes, options),
                                     LAMBDA i : i.severity \notin {"call", "throw"})
                      /\ \A f \in 1..Len(MemberFields(of, itemType)) :
                           LET field == MemberFields(of, itemType)[f]
                               at == IssuesAt(ItemPath(pv.path, n) \o "." \o field.name)
                           IN (DeclaresRequired(field) /\ IsAbsent(Get(item, field.name))) =>
                                /\ Len(at) = 1
                                /\ at[1].severity = "error"

\* a list whose only finding is the missing _key of a well-formed seo item:
\* a warning, and the document is valid
ValidWithUnkeyedItem ==
  /\ Done
  /\ schemaType = listType
  /\ result.valid
  /\ Len(result.warnings) = 1
  /\ result.warnings[1].path = "things[0]"
  /\ result.warnings[1].message = "Array item is missing _key property"
  /\ result.errors = <<>>

\* a post whose body holds an item of a type the array does not declare next
\* to an item of a declared type whose required field is absent
UndeclaredAndIncompleteItems ==
  /\ Done
  /\ Get(document, "body") =
       Arr(<< Obj(<< P("_type", Str("video")), P("_key", Str("k2")) >>),
              Obj(<< P("_type", Str("callout")) >>) >>)
  /\ Len(IssuesAt("body[0]._type")) = 1
  /\ Len(IssuesAt("body[0]._type")[1].suggestions) = 3
  /\ Len(IssuesAt("body[1].text")) = 1
  /\ Len(IssuesAt("body[1]")) = 1


\* ------------------------------------------------------------------------
\* C24
\* ------------------------------------------------------------------------
\* the nesting depth of a value: an object or an array is one level deeper
\* than the deepest value it holds
RECURSIVE NestingDepth(_)
NestingDepth(v) ==
  CASE v.t = "object" -> 1 + MaxOf({ NestingDepth(v.props[k].v) : k \in 1..Len(v.props) })
    [] v.t = "array" -> 1 + MaxOf({ NestingDepth(v.items[k]) : k \in 1..Len(v.items) })
    [] OTHER -> 0

\* the depth of the recursion of validateField under validateDocument
RecursionDepth ==
  MaxOf({ validateFieldDepth(Get(document, schemaType.fields[k].name), schemaType.fields[k],
                             allTypes, DepthLimit) : k \in 1..Len(schemaType.fields) })

Finished == pc \in {"done", "threw", "formatted"}

\* the statements a call has left at most: the root fields not yet reached,
\* the filter and the return
StepsLeft ==
  CASE pc = "start" -> Len(schemaType.fields) + 3
    [] pc = "fields" -> Len(schemaType.fields) + 3 - idx
    [] pc = "filter" -> 1
    [] OTHER -> 0

\* C24: validateDocument comes to an end for every document, also against a
\* catalog in which an object type contains a field of its own type, directly
\* or through another type: every step of a running call leaves it fewer
\* statements to execute, the call finishes, and the recursion of
\* validateField is never deeper than the document is nested.
ValidationEndsWithinNesting ==
  /\ [](RecursionDepth <= DepthLimit /\ RecursionDepth <= NestingDepth(document))
  /\ [][Running => StepsLeft' < StepsLeft /\ StepsLeft' >= 0]_vars
  /\ <>Finished

\* a finished validation of a tree whose root nests four objects: the node
\* type that contains itself is followed down to the absent fields of the
\* innermost object, five calls deep in a document nested five deep
NestedTreeValidated ==
  /\ Done
  /\ NestingDepth(document) = 5
  /\ NestingDepth(Get(document, "root")) = 4
  /\ validateFieldDepth(Get(document, "root"), schemaType.fields[1], allTypes, DepthLimit) = 5
  /\ Len(IssuesAt("root.child.child.label")) = 1
  /\ Len(IssuesAt("root.child.child.child.label")) = 1


\* ------------------------------------------------------------------------
\* C25
\* ------------------------------------------------------------------------
\* a regex rule whose pattern the RegExp constructor rejects
Uncompilable(rule) ==
  /\ rule.flag = "regex"
  /\ rule.constraint.t = "object"
  /\ Get(rule.constraint, "pattern") \in { Str("["), Str("("), Str("*") }

\* a field without the rules that satisfy Uncompilable
WithoutUncompilable(field) ==
  [field EXCEPT !.validation =
     [g \in 1..Len(field.validation) |->
        [rules |-> SelectSeq(field.validation[g].rules, LAMBDA r : ~Uncompilable(r))]]]

\* the present field values that carry an uncompilable regex rule
BadRegexFields ==
  { pv \in PresentVisited : \E r \in DeclaredRules(pv.field) : Uncompilable(r) }

\* C25: a regex rule whose pattern cannot be compiled yields no issue and
\* does not abort the validation; the field yields the issues it yields
\* without that rule, from the rules before and after it, and every root
\* field is still validated.
UncompilableRegexSkipped ==
  /\ \A k \in 1..Len(issues) : issues[k].rule = Undef \/ ~Uncompilable(issues[k].rule)
  /\ (pc = "threw" /\ Len(visited) > 0) =>
       \A f \in 1..Len(schemaType.fields) :
         schemaType.fields[f].name = visited[Len(visited)].name =>
           \A r \in DeclaredRules(schemaType.fields[f]) : ~Uncompilable(r)
  /\ Done =>
       /\ ~stopOnFirstError => Len(visited) = Len(schemaType.fields)
       /\ \A pv \in BadRegexFields :
            IssuesAt(pv.path) =
              SelectSeq(validateField(pv.value, WithoutUncompilable(pv.field), pv.path,
                                      allTypes, options),
                        LAMBDA i : i.severity \notin {"call", "throw"})

\* an event whose code breaks the rule before and the rule after the
\* uncompilable one, and whose link, a later field's value, is reported too
RulesAroundBadRegexReported ==
  /\ Done
  /\ schemaType = eventType
  /\ Get(document, "code") = Str("abcd")
  /\ Get(document, "link") = Str("not a url")
  /\ Len(IssuesAt("code")) = 2
  /\ IssuesAt("code")[1].message = "Does not match code format"
  /\ IssuesAt("code")[2].message = "Must be at most 3 characters"
  /\ Len(IssuesAt("link")) > 0
  /\ \E r \in DeclaredRules(schemaType.fields[5]) : Uncompilable(r)


\* ------------------------------------------------------------------------
\* C26
\* ------------------------------------------------------------------------
\* the issues a rule of a field yields at a path
IssuesOfRule(path, rule) == SelectSeq(IssuesAt(path), LAMBDA i : i.rule = rule)

\* C26 as stated: for a present field value, each unique rule and each custom
\* rule yields an issue of severity info and no issue of severity error.
UnexecutedRulesInform ==
  Done =>
    \A pv \in PresentVisited : \A r \in DeclaredRules(pv.field) :
      r.flag \in {"unique", "custom"} =>
        /\ \E k \in 1..Len(IssuesOfRule(pv.path, r)) :
             IssuesOfRule(pv.path, r)[k].severity = "info"
        /\ \A k \in 1..Len(IssuesOfRule(pv.path, r)) :
             IssuesOfRule(pv.path, r)[k].severity # "error"

\* C26: rules flagged unique or custom never yield an error: for a present
\* field value each custom rule yields issues of severity info only, and at
\* least one, and a unique rule yields no issue at all.
UnexecutedRulesNeverError ==
  Done =>
    \A pv \in PresentVisited : \A r \in DeclaredRules(pv.field) :
      /\ r.flag = "custom" =>
           /\ IssuesOfRule(pv.path, r) # <<>>
           /\ \A k \in 1..Len(IssuesOfRule(pv.path, r)) :
                IssuesOfRule(pv.path, r)[k].severity = "info"
      /\ r.flag = "unique" => IssuesOfRule(pv.path, r) = <<>>

\* a product whose status, a field with a unique and a custom rule, is one
\* of its options: the only finding about status is the note of the custom rule
StatusNotedForCustomOnly ==
  /\ Done
  /\ schemaType = productType
  /\ Get(document, "status") = Str("draft")
  /\ Len(IssuesAt("status")) = 1
  /\ IssuesAt("status")[1].severity = "info"
  /\ IssuesAt("status")[1].rule = Rule("custom", Undef)
  /\ Rule("unique", Undef) \in DeclaredRules(schemaType.fields[2])


\* ------------------------------------------------------------------------
\* C27
\* ------------------------------------------------------------------------
\* the issues of the call of validateField at a path: those at the path and
\* under it, in the order found
FieldCallIssues(path) ==
  SelectSeq(issues, LAMBDA i : \/ i.path = path
                               \/ StartsWith(i.path, path \o ".")
                               \/ StartsWith(i.path, path \o "["))

\* the issues of the rules of a field, rule after rule in declaration order
RECURSIVE RulesInOrder(_, _, _, _, _)
RulesInOrder(value, rules, i, path, fieldContext) ==
  IF i > Len(rules) THEN <<>>
  ELSE applyRule(value, rules[i], path, fieldContext)
       \o RulesInOrder(value, rules, i + 1, path, fieldContext)

Reportable(seq) == SelectSeq(seq, LAMBDA i : i.severity \notin {"call", "throw"})

\* C27: for a present field value of any kind, the issues of validateField
\* are the issues of the structural check followed by the issues of every
\* rule of the field in declaration order, applied to the value as it is,
\* whether or not the structural check reported an error.
RulesFollowStructuralCheck ==
  Done =>
    \A pv \in PresentVisited :
      FieldCallIssues(pv.path) =
        Reportable(structuralCheck(pv.value, pv.field, pv.path, allTypes, options,
                                   getValidationRules(pv.field), FieldContext(pv.field)))
        \o Reportable(RulesInOrder(pv.value, getValidationRules(pv.field), 1, pv.path,
                                   FieldContext(pv.field)))

\* a product whose price is the string "3": the structural check reports
\* the type, and the rules are applied all the same, the custom rule leaving
\* its note after the structural error
RulesAppliedAfterTypeError ==
  /\ Done
  /\ schemaType = productType
  /\ Get(document, "price") = Str("3")
  /\ Len(IssuesAt("price")) >= 2
  /\ IssuesAt("price")[1].message = "Expected number, got string"
  /\ IssuesAt("price")[Len(IssuesAt("price"))].severity = "info"
  /\ IssuesAt("price")[Len(IssuesAt("price"))].rule = Rule("custom", Undef)


\* ------------------------------------------------------------------------
\* C28
\* ------------------------------------------------------------------------
\* C28: generateDocumentSkeleton and generateSkeletonByTypeName come to an end
\* and return a skeleton for every schema type and catalog, also when an
\* object type of the catalog has a field of its own type, directly or
\* through other object types.
SkeletonGenerationEnds ==
  (skeletonOptions # NoSkeleton /\ pc # "skeleton") =>
    /\ document # Undef
    /\ document = generatedSkeleton(schemaType, allTypes, skeletonOptions)

\* ------------------------------------------------------------------------
\* C29
\* ------------------------------------------------------------------------
SlugWarnings ==
  SelectSeq(issues, LAMBDA i : /\ i.severity = "warning"
                               /\ i.message = "Slug contains invalid characters")

\* the slug a warning suggests: the text between the quotes of Use: "..."
SuggestedSlug(issue) == SubSeq(issue.suggestions[1], 7, Len(issue.suggestions[1]) - 1)

\* C29: whenever validateSlug warns about a slug, the slug it suggests is
\* non-empty and of the canonical form, validating it yields neither the
\* warning nor an error, and normalising it again returns it unchanged.
SuggestedSlugAccepted ==
  \A k \in 1..Len(SlugWarnings) :
    LET suggested == SuggestedSlug(SlugWarnings[k])
    IN /\ StartsWith(SlugWarnings[k].suggestions[1], "Use: \"")
       /\ suggested # ""
       /\ SlugFormatOk(suggested)
       /\ validateSlug(Obj(<< P("current", Str(suggested)) >>), SlugWarnings[k].field,
                       "slug", <<>>, SlugWarnings[k].field) = <<>>
       /\ NormalizeSlug(suggested) = suggested

\* ------------------------------------------------------------------------
\* C30
\* ------------------------------------------------------------------------
SeverityRank(sev) == CASE sev = "error" -> 1 [] sev = "warning" -> 2 [] OTHER -> 3

\* the issues of the root fields validated so far, field after field
RECURSIVE RootFieldIssues(_)
RootFieldIssues(k) ==
  IF k = 0 THEN <<>> ELSE RootFieldIssues(k - 1) \o FieldCallIssues(visited[k].name)

\* the issues of one severity, in the order found
InFoundOrder(sev) == SelectSeq(issues, LAMBDA i : i.severity = sev)

\* C30: in every result, issues is errors, then warnings, then info, never
\* interleaved, and as long as the three together; each group holds its
\* issues in the order they were found, which is the _type check, then the
\* root fields in declaration order, each with its nested issues.
IssuesGroupedBySeverity ==
  Done =>
    /\ result.issues = result.errors \o result.warnings \o result.info
    /\ Len(result.issues) = Len(result.errors) + Len(result.warnings) + Len(result.info)
    /\ \A i \in 1..Len(result.issues) : \A j \in i..Len(result.issues) :
         SeverityRank(result.issues[i].severity) <= SeverityRank(result.issues[j].severity)
    /\ result.errors = InFoundOrder("error")
    /\ result.warnings \in { <<>>, InFoundOrder("warning") }
    /\ result.info \in { <<>>, InFoundOrder("info") }
    /\ issues = IssuesAt("_type") \o RootFieldIssues(Len(visited))
    /\ \A k \in 1..Len(visited) : visited[k].name = schemaType.fields[k].name

\* a result that reports a warning found before an error: the error comes
\* first in issues, the warning after it
WarningFoundFirstReportedLast ==
  /\ Done
  /\ Len(issues) >= 2
  /\ issues[1].severity = "warning"
  /\ issues[Len(issues)].severity = "error"
  /\ Len(result.warnings) > 0
  /\ result.issues[1].severity = "error"
  /\ result.issues[Len(result.errors) + 1] = issues[1]

====
